---- MODULE Spec2Model ----
(***************************************************************************)
(* Budget-execution backend (Sistema Contabil): rubrica hierarchy,         *)
(* despesas, the global annual allocation (dotacao global) with its        *)
(* movement ledger, and the two expense-confirmation routes.               *)
(*                                                                         *)
(* Money is counted in hundredths, the step of a DECIMAL(18,2) column.     *)
(* One fiscal year (exercicio) and one                                     *)
(* month are modelled, so the keys (rubrica, mes, ano) of execucao_mensal  *)
(* reduce to the rubrica id and dotacao_global has at most one row.        *)
(* A database session is modelled by its statements: writes of a request   *)
(* become visible to other requests at the request's db.commit(), and the  *)
(* SELECT ... FOR UPDATE row lock is held from the locking query to the    *)
(* next commit or rollback of the same session.                            *)
(* The statements of a handler are modelled as written; the transaction   *)
(* bookkeeping of the session library is not part of the repository.       *)
(* Left out: authentication (the caller's role is an input of a request)   *)
(* and a NULL dotacao_inicial (read as 0 by the code).                     *)
(*                                                                         *)
(* The accounts (usuario, fornecedor, funcionario, user_creation_log) and  *)
(* the spreadsheet import have specifications of their own.  A text is an  *)
(* integer: an even number for a text in its normal form (an email in      *)
(* small letters, a code in capitals) and the odd number after it for the  *)
(* same text written otherwise.  What the installed database decides, the  *)
(* case sensitivity of a comparison and the enforcement of foreign keys,   *)
(* is chosen in the initial state.                                         *)
(*                                                                         *)
(* A date is modelled by its year, and the month of a despesa is taken as  *)
(* given.  Only SpecDatas lets the fiscal year of a despesa vary.          *)
(* The dashboard event queues are process memory that request handlers     *)
(* write and never read.  SpecEvents models the handlers together with the *)
(* event they publish, SpecStreams the streams that drain the queues with  *)
(* the tables held fixed; the other specifications follow the tables only  *)
(* and hold the queues fixed.  Handlers and stream generators run on one   *)
(* event loop, so a step between two awaits is atomic.                     *)
(***************************************************************************)
EXTENDS Integers, Sequences, FiniteSets, TLC

\* ---------------------------------------------------------------- bounds
MaxRubricas == 3
MaxDespesas == 2
MaxDotacao  == 1
MaxValor    == 1
MaxLedger   == 3
MaxReqs     == 2
MaxBatch    == 2
MaxAnual    == 2
MaxEvents   == 2
MaxStreams  == 2
MaxUsuarios     == 2
MaxFornecedores == 2
MaxFuncionarios == 1
MaxImports  == 1
MaxLinhas   == 2

\* ------------------------------------------------------------- constants
NoParent == 0
NoLock   == 0
NoDate   == 0
NoExercicio == 0
Hoje     == 2025
QueueMaxsize == 0
ShutdownPuts == 10

VARIABLES
  rubricas,    \* table rubrica: sequence of rows, id = position
  despesas,    \* table despesa: sequence of rows, id = position
  dotacao,     \* table dotacao_global: the row of the fiscal year
  ledger,      \* table dotacao_global_mov: rows in insertion order
  execucao,    \* table execucao_mensal: rubrica id -> row or NoRow
  lock,        \* request holding the FOR UPDATE lock on the dotacao row
  req,         \* in-flight requests: slot -> request record
  hist,        \* history of what the requests did (observation only)
  event_queues,   \* dashboard_events.event_queues: exercicio -> queued events
  shutting_down,  \* dashboard_events._shutting_down
  orphans,        \* the queues shutdown removed from event_queues, which
                  \* the streams opened before still hold
  streams,        \* the GET /dashboard/events responses
  frame,          \* what the last step sent to a client
  relogio,        \* datetime.now() as a count of the events published
  usuarios,          \* table usuario: sequence of rows, id = position
  fornecedores,      \* table fornecedor: sequence of rows, id = position
  funcionarios,      \* table funcionario: sequence of rows, id = position
  user_creation_log, \* table user_creation_log: the usuario ids its rows name
  motor,             \* the database as installed: how it compares text and
                     \* whether it enforces foreign keys
  info,              \* the answer, if the last request was one that creates
                     \* a supplier or an employee
  import_batch,      \* table import_batch: sequence of rows, id = position
  colunas            \* the columns codigo and exercicio of rubrica and the
                     \* column batch_id of despesa, by row id

vars == <<rubricas, despesas, dotacao, ledger, execucao, lock, req, hist,
          event_queues, shutting_down, orphans, streams, frame, relogio,
          usuarios, fornecedores, funcionarios, user_creation_log, motor,
          info, import_batch, colunas>>

\* the state of the dashboard events, the tables of the accounts and of
\* the imports, and the rest
sse    == <<event_queues, shutting_down, orphans, streams, frame, relogio>>
outras == <<usuarios, fornecedores, funcionarios, user_creation_log, motor,
            info, import_batch, colunas>>
resto  == <<sse, outras>>
orcamento == <<rubricas, despesas, dotacao, ledger, execucao, lock, req, hist>>
tables == <<orcamento, outras>>

RubricaIds == 1..Len(rubricas)
DespesaIds == 1..Len(despesas)
Reqs       == 1..MaxReqs

\* ------------------------------------------------------------ rubricas
\* get_children: direct children, whatever their status
get_children(rs, id) == {c \in 1..Len(rs) : rs[c].parent_id = id}

is_leaf_rubrica(rs, id) == get_children(rs, id) = {}

has_children(rs, id) == ~is_leaf_rubrica(rs, id)

\* get_ancestors: the rubrica and the chain of its parents
RECURSIVE get_ancestors(_, _)
get_ancestors(rs, id) ==
  IF id = NoParent \/ id \notin 1..Len(rs) THEN {}
  ELSE {id} \cup get_ancestors(rs, rs[id].parent_id)

\* ids of a set ordered by descending nivel (ties by id)
RECURSIVE SortByNivelDesc(_, _)
SortByNivelDesc(rs, S) ==
  IF S = {} THEN <<>>
  ELSE LET m == CHOOSE x \in S :
                  \A y \in S : \/ rs[x].nivel > rs[y].nivel
                               \/ (rs[x].nivel = rs[y].nivel /\ x <= y)
       IN  <<m>> \o SortByNivelDesc(rs, S \ {m})

RECURSIVE SetToSeq(_)
SetToSeq(S) ==
  IF S = {} THEN <<>>
  ELSE LET m == CHOOSE x \in S : \A y \in S : x <= y
       IN  <<m>> \o SetToSeq(S \ {m})

\* children that calculate_node sums: same fiscal year and ATIVA
ActiveChildren(rs, id) ==
  {c \in 1..Len(rs) : rs[c].parent_id = id /\ rs[c].status = "ativa"}

\* calculate_node threads the rows and the per-call cache: st = [rs, cache]
RECURSIVE calculate_node(_, _)
RECURSIVE calculate_children(_, _, _)
calculate_children(st, kids, total) ==
  IF kids = <<>> THEN [st |-> st, total |-> total]
  ELSE LET c   == Head(kids)
           s1  == calculate_node(st, c)
           val == s1.cache[c]
           s2  == [rs    |-> [s1.rs EXCEPT ![c].dotacao_calculada = val],
                   cache |-> s1.cache]
       IN  calculate_children(s2, Tail(kids), total + val)

calculate_node(st, id) ==
  IF id \in DOMAIN st.cache THEN st
  ELSE LET kids == ActiveChildren(st.rs, id)
       IN IF kids # {}
          THEN LET r == calculate_children(st, SetToSeq(kids), 0)
               IN  [rs    |-> [r.st.rs EXCEPT ![id].dotacao_calculada = r.total],
                    cache |-> r.st.cache @@ (id :> r.total)]
          ELSE LET v == st.rs[id].dotacao_inicial
               IN  [rs    |-> [st.rs EXCEPT ![id].dotacao_calculada = v],
                    cache |-> st.cache @@ (id :> v)]

RECURSIVE calculate_all(_, _)
calculate_all(st, ids) ==
  IF ids = <<>> THEN st
  ELSE calculate_all(calculate_node(st, Head(ids)), Tail(ids))

\* recalculate_dotacao_chain: the rows after recomputing the chain of id
recalculate_dotacao_chain(rs, id) ==
  IF id \notin 1..Len(rs) THEN rs
  ELSE calculate_all([rs |-> rs, cache |-> <<>>],
                     SortByNivelDesc(rs, get_ancestors(rs, id))).rs

\* --------------------------------------------------------- rubrica CRUD
StatusRubrica == {"ativa", "inativa"}

\* create_rubrica raises ValueError (nothing persisted) unless this holds
create_rubrica_ok(parent_id, dotacao_inicial) ==
  /\ ~(parent_id = NoParent /\ dotacao_inicial > 0)
  /\ dotacao_inicial >= 0

\* create_rubrica: the table after inserting the row and recalculating
create_rubrica(rs, parent_id, dotacao_inicial, status) ==
  LET nivel == IF parent_id # NoParent /\ parent_id \in 1..Len(rs)
               THEN rs[parent_id].nivel + 1 ELSE 1
      ini   == IF parent_id = NoParent THEN 0 ELSE dotacao_inicial
      row   == [parent_id         |-> parent_id,
                nivel             |-> nivel,
                dotacao_inicial   |-> ini,
                dotacao_calculada |-> ini,
                status            |-> status]
      rs1   == Append(rs, row)
  IN  recalculate_dotacao_chain(rs1, Len(rs1))

\* POST /rubricas
CreateRubrica(parent_id, dotacao_inicial, status) ==
  /\ Len(rubricas) < MaxRubricas
  /\ create_rubrica_ok(parent_id, dotacao_inicial)
  /\ rubricas' = create_rubrica(rubricas, parent_id, dotacao_inicial, status)
  /\ UNCHANGED <<despesas, dotacao, ledger, execucao, lock, req, hist>>

\* POST /rubricas/batch: every item becomes a child row whose
\* dotacao_inicial is the literal 0.00, then the parent chain is recalculated
RECURSIVE create_rubricas_batch(_, _, _)
create_rubricas_batch(rs, parent_id, items) ==
  IF items = <<>> THEN rs
  ELSE LET rs1 == create_rubrica(rs, parent_id, 0, "ativa")
           rs2 == recalculate_dotacao_chain(rs1, parent_id)
       IN  create_rubricas_batch(rs2, parent_id, Tail(items))

BatchItems == UNION {[1..n -> 0..MaxDotacao] : n \in 1..MaxBatch}

CreateRubricasBatch(parent_id, items) ==
  /\ parent_id \in RubricaIds
  /\ Len(rubricas) + Len(items) <= MaxRubricas
  /\ rubricas' = create_rubricas_batch(rubricas, parent_id, items)
  /\ UNCHANGED <<despesas, dotacao, ledger, execucao, lock, req, hist>>

\* update_rubrica raises ValueError (nothing persisted) unless this holds
update_rubrica_ok(rs, id, set_inicial, dotacao_inicial) ==
  set_inicial => (rs[id].parent_id # NoParent /\ dotacao_inicial >= 0)

update_rubrica(rs, id, set_inicial, dotacao_inicial, set_status, status) ==
  LET r0  == rs[id]
      r1  == IF set_inicial
             THEN [r0 EXCEPT !.dotacao_inicial   = dotacao_inicial,
                             !.dotacao_calculada = dotacao_inicial]
             ELSE r0
      r2  == IF set_status THEN [r1 EXCEPT !.status = status] ELSE r1
  IN  recalculate_dotacao_chain([rs EXCEPT ![id] = r2], id)

\* PUT /rubricas/{id}: update_rubrica, then the endpoint recalculates again
UpdateRubrica(id, set_inicial, dotacao_inicial, set_status, status) ==
  /\ id \in RubricaIds
  /\ set_inicial \/ set_status
  /\ update_rubrica_ok(rubricas, id, set_inicial, dotacao_inicial)
  /\ rubricas' = recalculate_dotacao_chain(
                   update_rubrica(rubricas, id, set_inicial, dotacao_inicial,
                                  set_status, status), id)
  /\ UNCHANGED <<despesas, dotacao, ledger, execucao, lock, req, hist>>

\* DELETE /rubricas/{id}: soft delete, then the parent chain is recalculated
delete_rubrica(rs, id) ==
  LET rs1 == [rs EXCEPT ![id].status = "inativa"]
  IN  IF rs[id].parent_id # NoParent
      THEN recalculate_dotacao_chain(rs1, rs[id].parent_id)
      ELSE rs1

DeleteRubrica(id) ==
  /\ id \in RubricaIds
  /\ rubricas[id].status # "inativa"
  /\ rubricas' = delete_rubrica(rubricas, id)
  /\ UNCHANGED <<despesas, dotacao, ledger, execucao, lock, req, hist>>

\* ---------------------------------------------------- dashboard events
\* the event types the handlers publish
EventTypes ==
  {"despesa_criada", "despesa_atualizada", "despesa_removida",
   "despesa_confirmada", "dotacao_atualizada", "rubrica_atualizada",
   "rubricas_recalculadas"}

Event(type, timestamp) == [type |-> type, timestamp |-> timestamp]

\* asyncio.Queue.full(): a queue made by asyncio.Queue() has maxsize 0
QueueFull(q) == QueueMaxsize > 0 /\ Len(q) >= QueueMaxsize

\* variant: an event published onto pending events is dropped
notify_event_sync_descarta(qs, exercicio, event) ==
  IF exercicio \in DOMAIN qs /\ qs[exercicio] # <<>> THEN qs
  ELSE (exercicio :> <<event>>) @@ qs

\* dashboard_events.py:278-304: the queue of the year is made if missing;
\* put_nowait, and on QueueFull the oldest event leaves and the new one enters
notify_event_sync(qs, exercicio, event) ==
  LET q == IF exercicio \in DOMAIN qs THEN qs[exercicio] ELSE <<>>
  IN  (exercicio :> IF QueueFull(q) THEN Append(Tail(q), event)
                    ELSE Append(q, event)) @@ qs

\* what the step sent to a client: "data" for a "data: {event}" frame,
\* "heartbeat" for a ": heartbeat" frame, NoFrame for nothing
NoFrame == "none"

\* a handler publishes one event, stamped with the time
Notify(exercicio, type) ==
  /\ relogio < MaxEvents
  /\ event_queues' = notify_event_sync(event_queues, exercicio,
                                       Event(type, relogio + 1))
  /\ relogio' = relogio + 1
  /\ frame' = NoFrame
  /\ UNCHANGED <<shutting_down, orphans, streams>>

\* a stream that is not open.  Of an open stream the model keeps the year,
\* and for observation the time it connected and whether an event published
\* since then went to another client
ClosedStream == [pc |-> "closed", exercicio |-> NoExercicio, desde |-> 0,
                 faltam |-> FALSE]

\* dashboard_events.py:105-190 and 193-274, up to the first wait: the queue
\* of the year is made if missing and the generator enters its loop, which
\* a set flag ends at once
Connect(c, exercicio, publico) ==
  /\ streams[c].pc = "closed"
  /\ event_queues' = IF exercicio \in DOMAIN event_queues THEN event_queues
                     ELSE (exercicio :> <<>>) @@ event_queues
  /\ streams' = [streams EXCEPT ![c] =
                   IF shutting_down THEN ClosedStream
                   ELSE [ClosedStream EXCEPT !.pc = "open",
                                             !.exercicio = exercicio,
                                             !.desde = relogio]]
  /\ frame' = NoFrame
  /\ UNCHANGED <<shutting_down, orphans, relogio>>
  /\ UNCHANGED tables

\* the queue object an open stream waits on
stream_queue(c) ==
  LET ex == streams[c].exercicio
  IN  IF ex \in DOMAIN orphans THEN orphans[ex]
      ELSE IF ex \in DOMAIN event_queues THEN event_queues[ex]
      ELSE <<>>

\* variant: the flag not looked at once the event is there
stream_on_event_sem_flag(flag, event) ==
  IF event.type = "shutdown" THEN "break" ELSE "data"

\* lines 136-148: what the generator does with the event it got
stream_on_event(flag, event) ==
  IF flag THEN "break"
  ELSE IF event.type = "shutdown" THEN "break"
  ELSE "data"

\* lines 150-155: what the generator does when the second ran out
stream_on_timeout(flag) == IF flag THEN "break" ELSE "heartbeat"

\* queue.get() returns the oldest event of the queue, which leaves it
StreamData(c) ==
  /\ streams[c].pc = "open"
  /\ stream_queue(c) # <<>>
  /\ LET ex    == streams[c].exercicio
         event == Head(stream_queue(c))
         out   == stream_on_event(shutting_down, event)
     IN  /\ IF ex \in DOMAIN orphans
            THEN /\ orphans' = [orphans EXCEPT ![ex] = Tail(@)]
                 /\ UNCHANGED event_queues
            ELSE /\ event_queues' = [event_queues EXCEPT ![ex] = Tail(@)]
                 /\ UNCHANGED orphans
         /\ streams' = [k \in DOMAIN streams |->
                          IF k = c
                          THEN IF out = "data" THEN streams[c] ELSE ClosedStream
                          ELSE IF /\ out = "data"
                                  /\ streams[k].pc = "open"
                                  /\ streams[k].exercicio = ex
                                  /\ streams[k].desde < event.timestamp
                               THEN [streams[k] EXCEPT !.faltam = TRUE]
                               ELSE streams[k]]
         /\ frame' = IF out = "data" THEN "data" ELSE NoFrame
  /\ UNCHANGED <<shutting_down, relogio>>
  /\ UNCHANGED tables

\* wait_for gives up after a second without an event
StreamTimeout(c) ==
  /\ streams[c].pc = "open"
  /\ stream_queue(c) = <<>>
  /\ IF stream_on_timeout(shutting_down) = "heartbeat"
     THEN /\ frame' = "heartbeat"
          /\ UNCHANGED streams
     ELSE /\ streams' = [streams EXCEPT ![c] = ClosedStream]
          /\ frame' = NoFrame
  /\ UNCHANGED <<event_queues, shutting_down, orphans, relogio>>
  /\ UNCHANGED tables

\* lines 157-162: the client goes away and the generator is cancelled
Disconnect(c) ==
  /\ streams[c].pc = "open"
  /\ streams' = [streams EXCEPT ![c] = ClosedStream]
  /\ frame' = NoFrame
  /\ UNCHANGED <<event_queues, shutting_down, orphans, relogio>>
  /\ UNCHANGED tables

\* main.py:28-63: the flag is set, every queue is given the shutdown event
\* ten times, and the dictionary is emptied
shutdown_event ==
  /\ ~shutting_down
  /\ shutting_down' = TRUE
  /\ orphans' = [ex \in DOMAIN event_queues |->
                   event_queues[ex]
                     \o [i \in 1..ShutdownPuts |-> Event("shutdown", relogio)]]
  /\ event_queues' = <<>>
  /\ frame' = NoFrame
  /\ UNCHANGED <<streams, relogio>>
  /\ UNCHANGED tables

\* a request handler, whichever, publishes its event
Publish(exercicio, type) ==
  /\ Notify(exercicio, type)
  /\ UNCHANGED tables

\* --------------------------------------------------------- despesa CRUD
is_rubrica_leaf(rs, id) == ~has_children(rs, id)

\* the rubrica checks shared by create_despesa and update_despesa
rubrica_accepts_despesa(rs, rubrica_id) ==
  /\ rubrica_id \in 1..Len(rs)
  /\ rs[rubrica_id].status = "ativa"
  /\ is_rubrica_leaf(rs, rubrica_id)

\* the fiscal years a request can name; every other specification than
\* SpecDatas works in the year Exercicio
Anos      == (Hoje - 1)..Hoje
Exercicio == Hoje

\* a date as its year: none, a past year, this year, or a day still to come
DataValores == {NoDate} \cup ((Hoje - 1)..(Hoje + 1))

\* crud.py:766-771: exercicio taken from the date when the request has none
create_despesa_exercicio(data_emissao, exercicio) ==
  IF data_emissao # NoDate /\ exercicio = NoExercicio THEN data_emissao
  ELSE exercicio

\* create_despesa raises ValueError, or the INSERT breaks NOT NULL on
\* exercicio, unless this holds (nothing persisted otherwise)
create_despesa_ok(rs, rubrica_id, valor, data_emissao, exercicio) ==
  LET ex == create_despesa_exercicio(data_emissao, exercicio)
  IN  /\ valor > 0
      /\ rubrica_accepts_despesa(rs, rubrica_id)
      /\ data_emissao # NoDate => ~(data_emissao > Hoje)
      /\ (data_emissao # NoDate /\ ex # NoExercicio) => data_emissao = ex
      /\ ex # NoExercicio

\* the row create_despesa inserts
create_despesa(rubrica_id, valor, data_emissao, exercicio) ==
  [rubrica_id   |-> rubrica_id,
   valor        |-> valor,
   status       |-> "pendente",
   present      |-> TRUE,
   data_emissao |-> data_emissao,
   exercicio    |-> create_despesa_exercicio(data_emissao, exercicio)]

\* POST /despesas, accepted: the row is inserted
CreateDespesa(rubrica_id, valor, data_emissao, exercicio) ==
  /\ Len(despesas) < MaxDespesas
  /\ create_despesa_ok(rubricas, rubrica_id, valor, data_emissao, exercicio)
  /\ despesas' = Append(despesas,
                        create_despesa(rubrica_id, valor, data_emissao, exercicio))
  /\ UNCHANGED <<rubricas, dotacao, ledger, execucao, lock, req, hist>>

\* a PUT /despesas/{id} payload that sets no field
NoUpdate ==
  [set_rubrica |-> FALSE, rubrica_id |-> 1, set_valor |-> FALSE, valor |-> 0,
   set_data |-> FALSE, data_emissao |-> NoDate,
   set_exercicio |-> FALSE, exercicio |-> NoExercicio]

\* crud.py:889-898: the exercicio update_data ends with (NoExercicio: the key
\* is absent), and the exercicio the date is compared with
update_despesa_exercicio(u) ==
  IF u.set_exercicio THEN u.exercicio
  ELSE IF u.set_data /\ u.data_emissao # NoDate THEN u.data_emissao
  ELSE NoExercicio

exercicio_atual(row, u) ==
  IF u.set_exercicio THEN u.exercicio
  ELSE IF u.set_data /\ u.data_emissao # NoDate THEN u.data_emissao
  ELSE row.exercicio

\* variant: the CONFIRMADA test of crud.py:860-862 left out
despesa_editavel_sempre(row, is_admin) == TRUE

\* crud.py:860-862: a confirmed despesa is not edited; is_admin is not read
despesa_editavel(row, is_admin) == row.status # "confirmada"

\* update_despesa raises ValueError, or the UPDATE breaks NOT NULL on
\* exercicio, unless this holds (nothing persisted otherwise)
update_despesa_ok(rs, row, u, is_admin) ==
  /\ despesa_editavel(row, is_admin)
  /\ u.set_valor => u.valor > 0
  /\ u.set_rubrica => rubrica_accepts_despesa(rs, u.rubrica_id)
  /\ (u.set_data /\ u.data_emissao # NoDate) =>
       /\ ~(u.data_emissao > Hoje)
       /\ u.data_emissao = exercicio_atual(row, u)
  /\ u.set_exercicio => u.exercicio # NoExercicio

\* crud.py:905-906: every key of update_data is written to the row
update_despesa(row, u) ==
  [row EXCEPT
     !.rubrica_id   = IF u.set_rubrica THEN u.rubrica_id ELSE @,
     !.valor        = IF u.set_valor THEN u.valor ELSE @,
     !.data_emissao = IF u.set_data THEN u.data_emissao ELSE @,
     !.exercicio    = IF update_despesa_exercicio(u) # NoExercicio
                      THEN update_despesa_exercicio(u) ELSE @]

\* PUT /despesas/{id}, accepted: the row is updated
UpdateDespesa(id, u, is_admin) ==
  /\ id \in DespesaIds
  /\ despesas[id].present
  /\ u # NoUpdate
  /\ update_despesa_ok(rubricas, despesas[id], u, is_admin)
  /\ despesas' = [despesas EXCEPT ![id] = update_despesa(despesas[id], u)]
  /\ UNCHANGED <<rubricas, dotacao, ledger, execucao, lock, req, hist>>

\* crud.py:925-927: a confirmed despesa is not removed
delete_despesa_ok(row) == row.status # "confirmada"

\* DELETE /despesas/{id}, accepted: physical removal of the row
DeleteDespesa(id) ==
  /\ id \in DespesaIds
  /\ despesas[id].present
  /\ delete_despesa_ok(despesas[id])
  /\ despesas' = [despesas EXCEPT ![id].present = FALSE]
  /\ UNCHANGED <<rubricas, dotacao, ledger, execucao, lock, req, hist>>

\* ------------------------------------------------------ dotacao global
NoDotacao == [exists |-> FALSE, valor_anual |-> 0, saldo |-> 0, reservado |-> 0]

Mov(tipo, referencia, valor) ==
  [tipo |-> tipo, referencia |-> referencia, valor |-> valor]

\* sum of a field over a set of ids
RECURSIVE SumOver(_, _)
SumOver(S, f) ==
  IF S = {} THEN 0
  ELSE LET x == CHOOSE y \in S : TRUE IN f[x] + SumOver(S \ {x}, f)

\* func.sum(Despesa.valor) over the CONFIRMADA despesas of a rubrica
gasto_confirmado(ds, rubrica_id) ==
  SumOver({d \in 1..Len(ds) : /\ ds[d].present
                              /\ ds[d].rubrica_id = rubrica_id
                              /\ ds[d].status = "confirmada"},
          [d \in 1..Len(ds) |-> ds[d].valor])

\* the requests a slot can be running, and where a running request stands
InFlight == {"loaded", "locked", "committed1", "s_loaded", "a_read"}

IdleReq == [pc |-> "idle", kind |-> "none", despesa |-> 0,
            override |-> FALSE, admin |-> FALSE,
            novo |-> 0, visto |-> NoDotacao]

\* a request that has answered: only the answer is kept
Ended(outcome) == [IdleReq EXCEPT !.pc = outcome]

\* a request that has answered, with what it asked: the route, the despesa
\* and whether the caller holds the admin role
Answered(outcome, kind, id, is_admin) ==
  [IdleReq EXCEPT !.pc = outcome, !.kind = kind, !.despesa = id,
                  !.admin = is_admin]

\* -------------------------------------- PUT and DELETE /despesas/{id}
\* api/despesas.py:251-281 without the event: 200 and the row updated, or
\* 400 (ValueError, or any other exception) and nothing changed
PutDespesa(id, u, is_admin) ==
  /\ id \in DespesaIds
  /\ despesas[id].present
  /\ u # NoUpdate
  /\ IF update_despesa_ok(rubricas, despesas[id], u, is_admin)
     THEN /\ despesas' = [despesas EXCEPT ![id] = update_despesa(despesas[id], u)]
          /\ req' = [req EXCEPT ![1] = Answered("ok", "put_despesa", id, is_admin)]
     ELSE /\ despesas' = despesas
          /\ req' = [req EXCEPT ![1] = Answered("e400", "put_despesa", id, is_admin)]
  /\ UNCHANGED <<rubricas, dotacao, ledger, execucao, lock, hist>>

\* api/despesas.py:284-317 without the event: the row removed, or 400 and
\* nothing changed; the caller's role is never looked up
DelDespesa(id, is_admin) ==
  /\ id \in DespesaIds
  /\ despesas[id].present
  /\ IF delete_despesa_ok(despesas[id])
     THEN /\ despesas' = [despesas EXCEPT ![id].present = FALSE]
          /\ req' = [req EXCEPT ![1] = Answered("ok", "delete_despesa", id, is_admin)]
     ELSE /\ despesas' = despesas
          /\ req' = [req EXCEPT ![1] = Answered("e400", "delete_despesa", id, is_admin)]
  /\ UNCHANGED <<rubricas, dotacao, ledger, execucao, lock, hist>>

\* ---------------------------------------------------------- history
NoLast == [op |-> "other", valor |-> 0, res0 |-> 0, sal0 |-> 0, sal1 |-> 0,
           res2 |-> 0, sal2 |-> 0]

HistInit(n) ==
  [override_used |-> FALSE,
   lowered       |-> FALSE,
   via           |-> [d \in 1..n |-> "none"],
   ser           |-> [saldo |-> 0, reservado |-> 0, ledger |-> <<>>, conf |-> {}],
   last          |-> NoLast]

\* the outcome of running a confirmation alone on the serial state
SerConfirm(s, d, valor, override) ==
  IF d \in s.conf THEN s
  ELSE IF ~override /\ valor > s.saldo - s.reservado THEN s
  ELSE [s EXCEPT !.saldo  = @ - valor,
                 !.ledger = Append(@, Mov("despesa_confirmada", d, -valor)),
                 !.conf   = @ \cup {d}]

SerReserva(s, valor) ==
  IF valor > s.saldo - s.reservado THEN s
  ELSE [s EXCEPT !.reservado = @ + valor,
                 !.ledger    = Append(@, Mov("reserva", 0, -valor))]

SerCancel(s, valor) ==
  IF valor > s.reservado THEN s
  ELSE [s EXCEPT !.reservado = @ - valor,
                 !.ledger    = Append(@, Mov("reserva_cancelada", 0, valor))]

\* ---------------------------- POST /despesas/{id}/confirm (with dotacao)
\* variant: the CONFIRMADA test of lines 52-62 left out
confirm_load_sem_confirmada(ds, d) ==
  IF d \notin 1..Len(ds) \/ ~ds[d].present THEN "e404"
  ELSE IF ds[d].status = "cancelada" THEN "e400"
  ELSE "loaded"

\* lines 47-68: load the despesa; 404, already confirmed, cancelled
confirm_load(ds, d) ==
  IF d \notin 1..Len(ds) \/ ~ds[d].present THEN "e404"
  ELSE IF ds[d].status = "confirmada" THEN "already"
  ELSE IF ds[d].status = "cancelada" THEN "e400"
  ELSE "loaded"

ConfirmStart(r, d, override, admin) ==
  /\ req[r].pc \notin InFlight
  /\ LET out == confirm_load(despesas, d)
     IN  req' = [req EXCEPT ![r] =
                   IF out = "loaded"
                   THEN [IdleReq EXCEPT !.pc = "loaded", !.kind = "confirm",
                                        !.despesa = d, !.override = override,
                                        !.admin = admin]
                   ELSE Ended(out)]
  /\ UNCHANGED <<rubricas, despesas, dotacao, ledger, execucao, lock, hist>>

\* variant: the check made against saldo alone, reservado forgotten
saldo_insuficiente_sem_reservado(dg, valor, override) ==
  ~override /\ valor > dg.saldo

\* lines 82-86: the balance check of a confirmation without override
saldo_insuficiente(dg, valor, override) ==
  ~override /\ valor > dg.saldo - dg.reservado

\* lines 70-114: SELECT ... FOR UPDATE, then the checks made under the lock
confirm_check(dg, valor, override, admin) ==
  IF ~dg.exists THEN "e404"
  ELSE IF saldo_insuficiente(dg, valor, override) THEN "e400_saldo"
  ELSE IF override /\ ~admin THEN "e403"
  ELSE "locked"

\* lines 70-132: lock the row, check, stage the deduction, the movement and
\* the status change (flushed, not committed).  A failed check leaves the
\* with-block by an exception: rollback, lock released.
ConfirmLock(r) ==
  /\ req[r].pc = "loaded"
  /\ lock = NoLock
  /\ Len(ledger) < MaxLedger
  /\ LET d   == req[r].despesa
         out == confirm_check(dotacao, despesas[d].valor,
                              req[r].override, req[r].admin)
     IN  IF out = "locked"
         THEN /\ lock' = r
              /\ req' = [req EXCEPT ![r].pc = "locked", ![r].admin = FALSE]
         ELSE /\ lock' = NoLock
              /\ req' = [req EXCEPT ![r] = Ended(out)]
  /\ UNCHANGED <<rubricas, despesas, dotacao, ledger, execucao, hist>>

\* variant: the deduction taken from the available balance
deduz_saldo_disponivel(dg, valor) ==
  [dg EXCEPT !.saldo = @ - dg.reservado - valor]

\* lines 116-117: dotacao.saldo = dotacao.saldo - despesa.valor
deduz_saldo(dg, valor) == [dg EXCEPT !.saldo = @ - valor]

\* lines 116-131 made durable by the db.commit() of crud.py:972, reached
\* through recalculate_execucao_mensal: saldo, movement, status and the
\* recalculated chain are committed and the row lock is released.
ConfirmCommit(r) ==
  /\ req[r].pc = "locked"
  /\ LET d     == req[r].despesa
         valor == despesas[d].valor
     IN  /\ dotacao'  = deduz_saldo(dotacao, valor)
         /\ ledger'   = Append(ledger, Mov("despesa_confirmada", d, -valor))
         /\ despesas' = [despesas EXCEPT ![d].status = "confirmada"]
         /\ rubricas' = recalculate_dotacao_chain(rubricas, despesas[d].rubrica_id)
         /\ hist' = [hist EXCEPT
                       !.override_used = @ \/ req[r].override,
                       !.via[d] = IF @ = "none" THEN "aware" ELSE @,
                       !.ser  = SerConfirm(@, d, valor, req[r].override),
                       !.last = NoLast]
  /\ lock' = NoLock
  /\ req' = [req EXCEPT ![r].pc = "committed1", ![r].override = FALSE]
  /\ UNCHANGED execucao

\* round half up of x / 12, the value a DECIMAL(18,2) column keeps
Div12(x) == (2 * x + 12) \div 24

\* variant: the new row given the whole computed allocation
recalculate_execucao_mensal_sem_dividir(ex, rs, ds, rubrica_id) ==
  LET gasto_total == gasto_confirmado(ds, rubrica_id)
  IN  IF rubrica_id \notin DOMAIN ex
      THEN IF gasto_total > 0
           THEN LET dotacao_mensal == rs[rubrica_id].dotacao_calculada
                IN  ex @@ (rubrica_id :> [dotacao |-> dotacao_mensal,
                                          gasto   |-> gasto_total,
                                          saldo   |-> dotacao_mensal - gasto_total])
           ELSE ex
      ELSE [ex EXCEPT ![rubrica_id].gasto = gasto_total,
                      ![rubrica_id].saldo = ex[rubrica_id].dotacao - gasto_total]

\* crud.py:978-1028: create the execucao_mensal row only when gasto > 0,
\* otherwise update gasto and saldo of the existing row
recalculate_execucao_mensal(ex, rs, ds, rubrica_id) ==
  LET gasto_total == gasto_confirmado(ds, rubrica_id)
  IN  IF rubrica_id \notin DOMAIN ex
      THEN IF gasto_total > 0
           THEN LET dotacao_mensal == Div12(rs[rubrica_id].dotacao_calculada)
                IN  ex @@ (rubrica_id :> [dotacao |-> dotacao_mensal,
                                          gasto   |-> gasto_total,
                                          saldo   |-> dotacao_mensal - gasto_total])
           ELSE ex
      ELSE [ex EXCEPT ![rubrica_id].gasto = gasto_total,
                      ![rubrica_id].saldo = ex[rubrica_id].dotacao - gasto_total]

\* crud.py:978-1028 and lines 139-143: the execucao_mensal row is written
\* and committed, the chain recalculated, and the with-block commits
ConfirmExecucao(r) ==
  /\ req[r].pc = "committed1"
  /\ LET d   == req[r].despesa
         rid == despesas[d].rubrica_id
     IN  /\ execucao' = recalculate_execucao_mensal(execucao, rubricas, despesas, rid)
         /\ rubricas' = recalculate_dotacao_chain(rubricas, rid)
         /\ req' = [req EXCEPT ![r] = Ended("ok")]
  /\ UNCHANGED <<despesas, dotacao, ledger, lock, hist>>

\* the request dies (worker killed, connection to the database lost) before
\* its next statement: what is not committed is rolled back
Abort(r) ==
  /\ req[r].pc \in {"loaded", "locked", "committed1"}
  /\ req[r].kind = "confirm"
  /\ lock' = IF lock = r THEN NoLock ELSE lock
  /\ req' = [req EXCEPT ![r] = Ended("aborted")]
  /\ UNCHANGED <<rubricas, despesas, dotacao, ledger, execucao, hist>>

\* -------------------------------- POST /despesas/{id}/confirmar (simple)
\* despesa_service.py:19-71
update_execucao_mensal(ex, rs, ds, rubrica_id) ==
  LET gasto_total   == gasto_confirmado(ds, rubrica_id)
      dotacao_valor == rs[rubrica_id].dotacao_calculada
  IN  IF rubrica_id \notin DOMAIN ex
      THEN ex @@ (rubrica_id :> [dotacao |-> dotacao_valor,
                                 gasto   |-> gasto_total,
                                 saldo   |-> dotacao_valor - gasto_total])
      ELSE [ex EXCEPT ![rubrica_id].gasto = gasto_total,
                      ![rubrica_id].saldo = ex[rubrica_id].dotacao - gasto_total]

\* despesa_service.py:88-147, one ancestor of the loop
update_ancestor_execucao(ex, rs, ds, ancestor) ==
  LET children    == get_children(rs, ancestor) \cap DOMAIN ex
      gasto_total == SumOver(children, [c \in children |-> ex[c].gasto])
                     + gasto_confirmado(ds, ancestor)
      dot         == rs[ancestor].dotacao_calculada
  IN  IF ancestor \notin DOMAIN ex
      THEN ex @@ (ancestor :> [dotacao |-> dot,
                               gasto   |-> gasto_total,
                               saldo   |-> dot - gasto_total])
      ELSE [ex EXCEPT ![ancestor].gasto = gasto_total,
                      ![ancestor].saldo = ex[ancestor].dotacao - gasto_total]

\* despesa_service.py:74-147: the ancestors in the order the query gave them
RECURSIVE update_ancestors_execucao_mensal(_, _, _, _)
update_ancestors_execucao_mensal(ex, rs, ds, ordem) ==
  IF ordem = <<>> THEN ex
  ELSE update_ancestors_execucao_mensal(
         update_ancestor_execucao(ex, rs, ds, Head(ordem)), rs, ds, Tail(ordem))

\* the orders in which a query without ORDER BY can return a set of rows
Orders(S) ==
  {o \in [1..Cardinality(S) -> S] : \A i, j \in DOMAIN o : i # j => o[i] # o[j]}

\* despesa_service.py:163-171: a missing despesa is a ValueError (400)
simple_load(ds, d) ==
  IF d \notin 1..Len(ds) \/ ~ds[d].present THEN "e400"
  ELSE IF ds[d].status = "confirmada" THEN "already"
  ELSE "s_loaded"

SimpleStart(r, d) ==
  /\ req[r].pc \notin InFlight
  /\ LET out == simple_load(despesas, d)
     IN  req' = [req EXCEPT ![r] =
                   IF out = "s_loaded"
                   THEN [IdleReq EXCEPT !.pc = "s_loaded", !.kind = "confirmar",
                                        !.despesa = d]
                   ELSE Ended(out)]
  /\ UNCHANGED <<rubricas, despesas, dotacao, ledger, execucao, lock, hist>>

\* despesa_service.py:173-187: status, own row, ancestors' rows, one commit
SimpleCommit(r, ordem) ==
  /\ req[r].pc = "s_loaded"
  /\ LET d   == req[r].despesa
         rid == despesas[d].rubrica_id
         ds1 == [despesas EXCEPT ![d].status = "confirmada"]
         ex1 == update_execucao_mensal(execucao, rubricas, ds1, rid)
     IN  /\ ordem \in Orders(get_ancestors(rubricas, rid))
         /\ despesas' = ds1
         /\ execucao' = update_ancestors_execucao_mensal(ex1, rubricas, ds1, ordem)
         /\ hist' = [hist EXCEPT !.via[d] = IF @ = "none" THEN "simple" ELSE @,
                                 !.ser.conf = @ \cup {d}]
         /\ req' = [req EXCEPT ![r] = Ended("ok")]
  /\ UNCHANGED <<rubricas, dotacao, ledger, lock>>

\* ----------------------------------------- POST /dotacao_global/reserva
criar_reserva_ok(dg, valor) == dg.exists /\ ~(valor > dg.saldo - dg.reservado)

\* line 302: dotacao.reservado = dotacao.reservado + data.valor
reserva_row(dg, valor) == [dg EXCEPT !.reservado = @ + valor]

CriarReserva(valor) ==
  /\ lock = NoLock
  /\ Len(ledger) < MaxLedger
  /\ criar_reserva_ok(dotacao, valor)
  /\ dotacao' = reserva_row(dotacao, valor)
  /\ ledger'  = Append(ledger, Mov("reserva", 0, -valor))
  /\ hist' = [hist EXCEPT
                !.ser  = SerReserva(@, valor),
                !.last = [NoLast EXCEPT !.op = "reserva", !.valor = valor,
                                        !.res0 = dotacao.reservado,
                                        !.sal0 = dotacao.saldo,
                                        !.sal1 = dotacao'.saldo]]
  /\ UNCHANGED <<rubricas, despesas, execucao, lock, req>>

\* ---------------------------------- POST /dotacao_global/reserva/cancel
cancelar_reserva_ok(dg, valor) == dg.exists /\ ~(valor > dg.reservado)

\* variant: the cancelled amount also returned to saldo
cancelamento_row_credita_saldo(dg, valor) ==
  [dg EXCEPT !.reservado = @ - valor, !.saldo = @ + valor]

\* line 354: dotacao.reservado = dotacao.reservado - data.valor
cancelamento_row(dg, valor) == [dg EXCEPT !.reservado = @ - valor]

CancelarReserva(valor) ==
  /\ lock = NoLock
  /\ Len(ledger) < MaxLedger
  /\ cancelar_reserva_ok(dotacao, valor)
  /\ dotacao' = cancelamento_row(dotacao, valor)
  /\ ledger'  = Append(ledger, Mov("reserva_cancelada", 0, valor))
  /\ hist' = [hist EXCEPT
                !.ser  = SerCancel(@, valor),
                !.last = IF hist.last.op = "reserva" /\ hist.last.valor = valor
                         THEN [hist.last EXCEPT !.op = "roundtrip",
                                                !.res2 = dotacao'.reservado,
                                                !.sal2 = dotacao'.saldo]
                         ELSE NoLast]
  /\ UNCHANGED <<rubricas, despesas, execucao, lock, req>>

\* -------------------------------------------------- POST /dotacao_global
\* lines 158-160: the row is read without a lock
AjusteStart(r, valor_anual) ==
  /\ req[r].pc \notin InFlight
  /\ req' = [req EXCEPT ![r] = [IdleReq EXCEPT !.pc = "a_read", !.kind = "ajuste",
                                               !.novo = valor_anual,
                                               !.visto = dotacao]]
  /\ UNCHANGED <<rubricas, despesas, dotacao, ledger, execucao, lock, hist>>

\* lines 162-201: the row as this session writes it back.  The UPDATE
\* carries the columns the session changed (valor_anual, saldo), computed
\* from the values it read; an unchanged row is not written at all.
ajuste_row(dg, visto, novo) ==
  IF visto.exists
  THEN IF novo = visto.valor_anual THEN dg
       ELSE [dg EXCEPT !.valor_anual = novo,
                       !.saldo = visto.saldo + (novo - visto.valor_anual)]
  ELSE [exists |-> TRUE, valor_anual |-> novo, saldo |-> novo, reservado |-> 0]

ajuste_movs(visto, novo) ==
  IF visto.exists
  THEN IF novo = visto.valor_anual THEN <<>>
       ELSE <<Mov("ajuste", 0, novo - visto.valor_anual)>>
  ELSE <<Mov("ajuste", 0, novo)>>

\* lines 162-201: written at db.commit(); the UPDATE waits for the row lock,
\* and a second INSERT for the same exercicio breaks the unique key (500)
AjusteCommit(r) ==
  /\ req[r].pc = "a_read"
  /\ lock = NoLock
  /\ Len(ledger) < MaxLedger
  /\ LET visto == req[r].visto
         novo  == req[r].novo
     IN  IF ~visto.exists /\ dotacao.exists
         THEN /\ req' = [req EXCEPT ![r] = Ended("e500")]
              /\ UNCHANGED <<dotacao, ledger, hist>>
         ELSE /\ dotacao' = ajuste_row(dotacao, visto, novo)
              /\ ledger'  = ledger \o ajuste_movs(visto, novo)
              /\ hist' = [hist EXCEPT
                            !.lowered = @ \/ (dotacao'.valor_anual < dotacao.valor_anual),
                            !.ser.saldo  = @ + (dotacao'.saldo - dotacao.saldo),
                            !.ser.ledger = @ \o ajuste_movs(visto, novo),
                            !.last = NoLast]
              /\ req' = [req EXCEPT ![r] = Ended("ok")]
  /\ UNCHANGED <<rubricas, despesas, execucao, lock>>

\* ------------------------------------------------------------ accounts
\* the answer to a request that creates a supplier or an employee
NoInfo == [kind |-> "none", ok |-> FALSE, usuario_criado |-> FALSE,
           vinculado |-> FALSE, senha_temporaria |-> FALSE]

\* An email is modelled by its address and its spelling.  Address k is
\* written in lower case (2k) or with a capital letter (2k + 1);
\* InvalidEmail is text that is no address.  The address made up from a
\* name is in lower case and is none of the addresses sent.  Names are plain letters; usernames, made unique
\* by the code, are left out, and so are the roles and import batches of an
\* account and the despesas of a supplier: the suppliers deleted here own
\* none.  The nif and the contact are given trimmed.
NoUsuario    == 0
NoEmail      == 0
InvalidEmail == 1
NoNome       == 0
Nomes        == {NoNome, 1}
Nuits        == {0, 1}
Contactos    == {0, 1}
Enderecos    == {1}

TempEmail(nome) == 2 * (Cardinality(Enderecos) + nome)

EmailValores ==
  {NoEmail, InvalidEmail} \cup {2 * k : k \in Enderecos}
                          \cup {2 * k + 1 : k \in Enderecos}

\* user_service.py:13-18
is_valid_email(email) == email >= 2

\* email.strip().lower()
normalize_email(email) == email - (email % 2)

UsuarioIds     == 1..Len(usuarios)
FornecedorIds  == 1..Len(fornecedores)
FuncionarioIds == 1..Len(funcionarios)

UsuarioRow(email, nuit, contacto, activo) ==
  [present |-> TRUE, activo |-> activo, email |-> email, nuit |-> nuit,
   contacto |-> contacto]

\* Usuario.email = x as the database evaluates it
email_eq(a, b) ==
  IF motor.ci THEN normalize_email(a) = normalize_email(b) ELSE a = b

\* .first() of a query that a unique column lets match one row at most
FirstUsuario(S) ==
  IF S = {} THEN NoUsuario ELSE CHOOSE u \in S : \A v \in S : u <= v

\* user_service.py:53-57
find_existing_user_by_email(email) ==
  IF ~is_valid_email(email) THEN NoUsuario
  ELSE FirstUsuario({u \in UsuarioIds :
                       /\ usuarios[u].present
                       /\ usuarios[u].email # NoEmail
                       /\ email_eq(usuarios[u].email, normalize_email(email))})

\* user_service.py:60-64
find_existing_user_by_nuit(nuit) ==
  IF nuit = 0 THEN NoUsuario
  ELSE FirstUsuario({u \in UsuarioIds :
                       usuarios[u].present /\ usuarios[u].nuit = nuit})

\* user_service.py:67-71
find_existing_user_by_contacto(contacto) ==
  IF contacto = 0 THEN NoUsuario
  ELSE FirstUsuario({u \in UsuarioIds :
                       usuarios[u].present /\ usuarios[u].contacto = contacto})

\* what the handling of the account decides: an error, an account to link,
\* or the email of the account to create
Decisao(erro, vincular, criar) ==
  [erro |-> erro, vincular |-> vincular, criar |-> criar]

\* variant: the account is always a new one
handle_user_creation_sempre_cria(data, com_nuit) ==
  IF data.nome = NoNome THEN Decisao(TRUE, NoUsuario, NoEmail)
  ELSE Decisao(FALSE, NoUsuario,
               normalize_email(IF is_valid_email(data.email) THEN data.email
                               ELSE TempEmail(data.nome)))

\* user_service.py:153-269 and 272-380: the account is looked up by email,
\* then (suppliers only) by tax id, then by contact, then by the address
\* made up from the name; if none is found one is created
handle_user_creation(data, com_nuit) ==
  LET por_email    == find_existing_user_by_email(data.email)
      por_nuit     == IF por_email = NoUsuario /\ com_nuit
                      THEN find_existing_user_by_nuit(data.nif)
                      ELSE por_email
      por_contacto == IF por_nuit = NoUsuario
                      THEN find_existing_user_by_contacto(data.contacto)
                      ELSE por_nuit
      email_para_criacao ==
        IF is_valid_email(data.email) THEN data.email ELSE NoEmail
      usuario_temp ==
        IF email_para_criacao = NoEmail
        THEN find_existing_user_by_email(TempEmail(data.nome))
        ELSE NoUsuario
  IN  IF data.nome = NoNome THEN Decisao(TRUE, NoUsuario, NoEmail)
      ELSE IF por_contacto # NoUsuario
      THEN Decisao(FALSE, por_contacto, NoEmail)
      ELSE IF usuario_temp # NoUsuario
      THEN Decisao(FALSE, usuario_temp, NoEmail)
      ELSE Decisao(FALSE, NoUsuario,
                   normalize_email(IF email_para_criacao # NoEmail
                                   THEN email_para_criacao
                                   ELSE TempEmail(data.nome)))

handle_user_creation_for_fornecedor(data)  == handle_user_creation(data, TRUE)
handle_user_creation_for_funcionario(data) == handle_user_creation(data, FALSE)

\* what a request to create a supplier or an employee carries
ContaDatas ==
  [nome : Nomes, email : EmailValores, nif : Nuits, contacto : Contactos]

Falhou(kind) == [NoInfo EXCEPT !.kind = kind]

Respondeu(kind, h) ==
  [kind |-> kind, ok |-> TRUE,
   usuario_criado   |-> h.vincular = NoUsuario,
   vinculado        |-> h.vincular # NoUsuario,
   senha_temporaria |-> h.vincular = NoUsuario]

\* the account a decision ends with: the one found, or the next id
ContaDe(h) == IF h.vincular # NoUsuario THEN h.vincular ELSE Len(usuarios) + 1

\* crud.py:316-375, the check at 344-352
fornecedor_existente(u) ==
  \E f \in FornecedorIds :
    fornecedores[f].present /\ fornecedores[f].usuario_id = u

\* the unique index on funcionario.usuario_id, which the commit at
\* crud.py:523 runs into
funcionario_existente(u) ==
  \E f \in FuncionarioIds :
    funcionarios[f].present /\ funcionarios[f].usuario_id = u

\* POST /fornecedores (api/fornecedores.py, crud.py:316-375): the supplier,
\* its account found or created, and the log row, or 400 and nothing kept
create_fornecedor_info(data) ==
  LET h == handle_user_creation_for_fornecedor(data)
      u == ContaDe(h)
  IN  IF h.erro \/ (h.vincular # NoUsuario /\ fornecedor_existente(u))
      THEN Falhou("create_fornecedor")
      ELSE Respondeu("create_fornecedor", h)

create_fornecedor(data) ==
  LET h == handle_user_creation_for_fornecedor(data)
      u == ContaDe(h)
  IN  /\ Len(fornecedores) < MaxFornecedores
      /\ h.vincular = NoUsuario => Len(usuarios) < MaxUsuarios
      /\ info' = create_fornecedor_info(data)
      /\ IF ~create_fornecedor_info(data).ok
         THEN UNCHANGED <<usuarios, fornecedores, user_creation_log>>
         ELSE /\ usuarios' = IF h.vincular # NoUsuario THEN usuarios
                             ELSE Append(usuarios,
                                         UsuarioRow(h.criar, data.nif,
                                                    data.contacto, TRUE))
              /\ fornecedores' = Append(fornecedores,
                                        [present |-> TRUE, usuario_id |-> u])
              /\ user_creation_log' = user_creation_log \cup {u}
      /\ UNCHANGED <<funcionarios, motor, import_batch, colunas>>
      /\ UNCHANGED <<orcamento, sse>>

\* POST /funcionarios (crud.py:494-526): as for a supplier, without the tax
\* id and without the check; the unique index refuses a second employee
create_funcionario_info(data) ==
  LET h == handle_user_creation_for_funcionario(data)
      u == ContaDe(h)
  IN  IF h.erro \/ (h.vincular # NoUsuario /\ funcionario_existente(u))
      THEN Falhou("create_funcionario")
      ELSE Respondeu("create_funcionario", h)

create_funcionario(data) ==
  LET h == handle_user_creation_for_funcionario(data)
      u == ContaDe(h)
  IN  /\ Len(funcionarios) < MaxFuncionarios
      /\ h.vincular = NoUsuario => Len(usuarios) < MaxUsuarios
      /\ info' = create_funcionario_info(data)
      /\ IF ~create_funcionario_info(data).ok
         THEN UNCHANGED <<usuarios, funcionarios, user_creation_log>>
         ELSE /\ usuarios' = IF h.vincular # NoUsuario THEN usuarios
                             ELSE Append(usuarios,
                                         UsuarioRow(h.criar, 0,
                                                    data.contacto, TRUE))
              /\ funcionarios' = Append(funcionarios,
                                        [present |-> TRUE, usuario_id |-> u])
              /\ user_creation_log' = user_creation_log \cup {u}
      /\ UNCHANGED <<fornecedores, motor, import_batch, colunas>>
      /\ UNCHANGED <<orcamento, sse>>

\* crud.py:437-450 and 563-576: the account goes with the record it backs
\* unless a record of the other kind is linked to it
remove_usuario(u, outro_vinculo) ==
  /\ u # NoUsuario
  /\ usuarios[u].present
  /\ ~outro_vinculo

\* DELETE FROM usuario, refused by a database that enforces the foreign key
\* of user_creation_log.usuario_id (models.py:253)
delete_recusado(u) == motor.fk /\ u \in user_creation_log

\* db.delete(usuario)
apaga_usuario(us, u) == [us EXCEPT ![u].present = FALSE]

\* DELETE /fornecedores/{id} (crud.py:418-453)
delete_fornecedor(f) ==
  /\ f \in FornecedorIds
  /\ fornecedores[f].present
  /\ LET u      == fornecedores[f].usuario_id
         remove == remove_usuario(u, funcionario_existente(u))
     IN  IF remove /\ delete_recusado(u)
         THEN UNCHANGED <<usuarios, fornecedores>>
         ELSE /\ fornecedores' = [fornecedores EXCEPT ![f].present = FALSE]
              /\ usuarios' = IF remove THEN apaga_usuario(usuarios, u)
                             ELSE usuarios
  /\ info' = NoInfo
  /\ UNCHANGED <<funcionarios, user_creation_log, motor, import_batch, colunas>>
  /\ UNCHANGED <<orcamento, sse>>

\* DELETE /funcionarios/{id} (crud.py:548-579)
delete_funcionario(f) ==
  /\ f \in FuncionarioIds
  /\ funcionarios[f].present
  /\ LET u      == funcionarios[f].usuario_id
         remove == remove_usuario(u, fornecedor_existente(u))
     IN  IF remove /\ delete_recusado(u)
         THEN UNCHANGED <<usuarios, funcionarios>>
         ELSE /\ funcionarios' = [funcionarios EXCEPT ![f].present = FALSE]
              /\ usuarios' = IF remove THEN apaga_usuario(usuarios, u)
                             ELSE usuarios
  /\ info' = NoInfo
  /\ UNCHANGED <<fornecedores, user_creation_log, motor, import_batch, colunas>>
  /\ UNCHANGED <<orcamento, sse>>

\* variant: DELETE /usuarios/{id} removes the row
delete_usuario_fisico(us, u) == [us EXCEPT ![u].present = FALSE]

\* api/usuarios.py:96-97
delete_usuario(us, u) == [us EXCEPT ![u].activo = FALSE]

\* DELETE /usuarios/{id} (api/usuarios.py:84-99)
delete_usuario_endpoint(u) ==
  /\ u \in UsuarioIds
  /\ usuarios[u].present
  /\ usuarios' = delete_usuario(usuarios, u)
  /\ info' = NoInfo
  /\ UNCHANGED <<fornecedores, funcionarios, user_creation_log, motor,
                 import_batch, colunas>>
  /\ UNCHANGED <<orcamento, sse>>

\* the unique indexes of usuario (models.py:108-113) against a row that is
\* to hold these values, other being the row itself if it exists
usuario_duplicado(other, email, nuit, contacto) ==
  \E v \in UsuarioIds \ {other} :
    /\ usuarios[v].present
    /\ \/ email # NoEmail /\ usuarios[v].email # NoEmail
          /\ email_eq(usuarios[v].email, email)
       \/ nuit # 0 /\ usuarios[v].nuit = nuit
       \/ contacto # 0 /\ usuarios[v].contacto = contacto

\* POST /usuarios (api/usuarios.py:44-68, crud.py:55-70): the email is
\* stored as it was sent
create_usuario(email, nuit, contacto, activo) ==
  /\ Len(usuarios) < MaxUsuarios
  /\ email = NoEmail \/ is_valid_email(email)
  /\ IF usuario_duplicado(NoUsuario, email, nuit, contacto)
     THEN UNCHANGED usuarios
     ELSE usuarios' = Append(usuarios,
                             UsuarioRow(email, nuit, contacto, activo))
  /\ info' = NoInfo
  /\ UNCHANGED <<fornecedores, funcionarios, user_creation_log, motor,
                 import_batch, colunas>>
  /\ UNCHANGED <<orcamento, sse>>

\* PUT /usuarios/{id} (crud.py:73-85) with the active flag in the payload
update_usuario(u, activo) ==
  /\ u \in UsuarioIds
  /\ usuarios[u].present
  /\ usuarios' = [usuarios EXCEPT ![u].activo = activo]
  /\ info' = NoInfo
  /\ UNCHANGED <<fornecedores, funcionarios, user_creation_log, motor,
                 import_batch, colunas>>
  /\ UNCHANGED <<orcamento, sse>>


\* ---------------------------------------------------------------- imports
\* services/importer.py and api/import_api.py.  The file a request reads
\* from the upload directory is an input of the request: a sequence of rows
\* with the cells of the mapped columns.  Every row names a supplier, one
\* that no supplier matches, so the despesa keeps the name as text.
NoBatch  == 0
NoCodigo == 0
NoValor  == -1

NoColunas == [rubrica |-> <<>>, batch_id |-> <<>>]

\* the cell of the code: empty, a code in capitals (an even number), or the
\* same code in small letters or with spaces around it (the odd number
\* after it)
CodigoValores == {NoCodigo, 2, 3, 4}

\* importer.py:43-49: strip and upper case
normalize_code(codigo) == codigo - (codigo % 2)

\* the cell of the amount as parse_currency reads it, NoValor for a text it
\* returns None for; the cell of the date as parse_date reads it
Linhas ==
  [codigo_rubrica : CodigoValores,
   valor : {NoValor} \cup (0..MaxValor), data : {NoDate, Hoje}]

Ficheiros == UNION {[1..n -> Linhas] : n \in 0..MaxLinhas}

BatchIds == 1..Len(import_batch)

\* crud.py:1033-1045
create_import_batch ==
  [linhas_processadas |-> 0, criadas |-> 0, atualizadas |-> 0, erros |-> 0]

\* POST /import/upload (import_api.py:28-70)
upload_file ==
  /\ Len(import_batch) < MaxImports
  /\ import_batch' = Append(import_batch, create_import_batch)
  /\ UNCHANGED <<usuarios, fornecedores, funcionarios, user_creation_log,
                 motor, info, colunas>>
  /\ UNCHANGED <<orcamento, sse>>

\* the tables an import works on, and its counters
ImportState(rs, cols, ds, criadas, erros) ==
  [rubricas |-> rs, colunas |-> cols, despesas |-> ds,
   criadas |-> criadas, erros |-> erros]

\* crud.py:588-597
get_rubrica_by_codigo_exercicio(st, codigo, exercicio) ==
  LET S == {r \in 1..Len(st.rubricas) :
              st.colunas.rubrica[r] = [codigo |-> codigo,
                                       exercicio |-> exercicio]}
  IN  IF S = {} THEN 0 ELSE CHOOSE r \in S : \A q \in S : r <= q

\* importer.py:232-261 RubricaMatcher.match: the rubrica with that code in
\* the fiscal year, or a provisional one created and committed on the spot
rubrica_matcher_match(st, codigo, exercicio) ==
  LET codigo_norm == normalize_code(codigo)
      rubrica == get_rubrica_by_codigo_exercicio(st, codigo_norm, exercicio)
  IN  IF rubrica # 0 THEN st
      ELSE [st EXCEPT
              !.rubricas = create_rubrica(@, NoParent, 0, "provisoria"),
              !.colunas.rubrica =
                 Append(@, [codigo |-> codigo_norm, exercicio |-> exercicio])]

\* importer.py:378-400: the errors that end process_row before any matching
row_erros(row) ==
  \/ row.codigo_rubrica = NoCodigo
  \/ row.valor = NoValor
  \/ row.valor <= 0

\* importer.py:345-438 process_row and importer.py:473-500, one row of the
\* loop of execute_import.  DespesaCreate (schemas.py:301-316) has no field
\* batch_id, so the keyword is dropped and the row is stored without it.
import_row(st, row, batch_id, exercicio, dry_run) ==
  IF row_erros(row) THEN [st EXCEPT !.erros = @ + 1]
  ELSE LET st1 == rubrica_matcher_match(st, row.codigo_rubrica, exercicio)
           rubrica_id == get_rubrica_by_codigo_exercicio(
                           st1, normalize_code(row.codigo_rubrica), exercicio)
       IN  IF dry_run THEN st1
           ELSE IF ~create_despesa_ok(st1.rubricas, rubrica_id, row.valor,
                                      row.data, exercicio)
           THEN [st1 EXCEPT !.erros = @ + 1]
           ELSE [st1 EXCEPT
                   !.despesas = Append(@, create_despesa(rubrica_id, row.valor,
                                                         row.data, exercicio)),
                   !.colunas.batch_id = Append(@, NoBatch),
                   !.criadas = @ + 1]

RECURSIVE import_rows(_, _, _, _, _, _)
import_rows(st, ficheiro, i, batch_id, exercicio, dry_run) ==
  IF i > Len(ficheiro) THEN st
  ELSE import_rows(import_row(st, ficheiro[i], batch_id, exercicio, dry_run),
                   ficheiro, i + 1, batch_id, exercicio, dry_run)

\* the outcome of importer.py:440-521 on the tables as they are
import_result(ficheiro, batch_id, exercicio, dry_run) ==
  import_rows(ImportState(rubricas, colunas, despesas, 0, 0),
              ficheiro, 1, batch_id, exercicio, dry_run)

\* POST /import/execute (import_api.py:248-312, importer.py:440-521)
execute_import(ficheiro, batch_id, exercicio, dry_run) ==
  LET st == import_result(ficheiro, batch_id, exercicio, dry_run)
  IN  /\ batch_id \in BatchIds
      /\ Len(st.rubricas) <= MaxRubricas
      /\ Len(st.despesas) <= MaxDespesas
      /\ rubricas' = st.rubricas
      /\ despesas' = st.despesas
      /\ colunas' = st.colunas
      /\ import_batch' =
           IF dry_run THEN import_batch
           ELSE [import_batch EXCEPT ![batch_id] =
                   [@ EXCEPT !.linhas_processadas = Len(ficheiro),
                             !.criadas = st.criadas,
                             !.atualizadas = 0,
                             !.erros = st.erros]]
      /\ UNCHANGED <<dotacao, ledger, execucao, lock, req, hist>>
      /\ UNCHANGED <<usuarios, fornecedores, funcionarios, user_creation_log,
                     motor, info>>
      /\ UNCHANGED sse

\* -------------------------------------------------------- specifications
\* no queue yet, no stream open, the process running
InitSse ==
  /\ event_queues = <<>>
  /\ shutting_down = FALSE
  /\ orphans = <<>>
  /\ streams = [c \in 1..MaxStreams |-> ClosedStream]
  /\ frame = NoFrame
  /\ relogio = 0

\* no account, supplier, employee or import batch yet, on a database that
\* compares text without regard to case and enforces its foreign keys
InitOutras ==
  /\ usuarios = <<>>
  /\ fornecedores = <<>>
  /\ funcionarios = <<>>
  /\ user_creation_log = {}
  /\ motor = [ci |-> TRUE, fk |-> TRUE]
  /\ info = NoInfo
  /\ import_batch = <<>>
  /\ colunas = NoColunas

ReservaValores == (-1)..MaxValor
AnualValores   == 0..MaxAnual
InicialValores == (-1)..MaxDotacao

RubricaRow(parent_id, nivel, inicial, calculada, status) ==
  [parent_id |-> parent_id, nivel |-> nivel, dotacao_inicial |-> inicial,
   dotacao_calculada |-> calculada, status |-> status]

PendingDespesa(rubrica_id, valor) ==
  create_despesa(rubrica_id, valor, NoDate, Exercicio)

\* the payloads of PUT /rubricas/{id}: the fields that are set, and their values
RubricaUpdates ==
  {u \in [set_inicial : BOOLEAN, inicial : InicialValores,
          set_status : BOOLEAN, status : StatusRubrica] :
     /\ u.set_inicial \/ u.set_status
     /\ ~u.set_inicial => u.inicial = 0
     /\ ~u.set_status => u.status = "ativa"}

\* the payloads of PUT /despesas/{id}
DespesaUpdates ==
  {u \in [set_rubrica : BOOLEAN, rubrica_id : 1..MaxRubricas,
          set_valor : BOOLEAN, valor : 0..MaxValor,
          set_data : {FALSE}, data_emissao : {NoDate},
          set_exercicio : {FALSE}, exercicio : {NoExercicio}] :
     /\ u.set_rubrica \/ u.set_valor
     /\ ~u.set_rubrica => u.rubrica_id = 1
     /\ ~u.set_valor => u.valor = 0}

\* an empty database
InitRubrica ==
  /\ rubricas = <<>>
  /\ despesas = <<>>
  /\ dotacao = NoDotacao
  /\ ledger = <<>>
  /\ execucao = <<>>
  /\ lock = NoLock
  /\ req = [r \in Reqs |-> IdleReq]
  /\ hist = HistInit(MaxDespesas)
  /\ InitSse
  /\ InitOutras

NextRubrica ==
  \/ \E p \in {NoParent} \cup RubricaIds, i \in InicialValores, s \in StatusRubrica :
       CreateRubrica(p, i, s) /\ UNCHANGED resto
  \/ \E p \in RubricaIds, items \in BatchItems : CreateRubricasBatch(p, items)
       /\ UNCHANGED resto
  \/ \E id \in RubricaIds, u \in RubricaUpdates :
       UpdateRubrica(id, u.set_inicial, u.inicial, u.set_status, u.status)
       /\ UNCHANGED resto
  \/ \E id \in RubricaIds : DeleteRubrica(id) /\ UNCHANGED resto
  \/ \E rid \in 1..MaxRubricas, v \in 0..MaxValor :
       CreateDespesa(rid, v, NoDate, Exercicio) /\ UNCHANGED resto
  \/ \E id \in DespesaIds, u \in DespesaUpdates, a \in BOOLEAN :
       UpdateDespesa(id, u, a) /\ UNCHANGED resto
  \/ \E id \in DespesaIds : DeleteDespesa(id) /\ UNCHANGED resto

SpecRubrica == InitRubrica /\ [][NextRubrica]_vars

\* ?override= and the caller's role, which is looked up only for an override
Callers == {c \in [override : BOOLEAN, admin : BOOLEAN] : c.admin => c.override}

\* the dotacao_global table: empty, or as POST /dotacao_global created it
InitDotacao(v) ==
  [exists |-> TRUE, valor_anual |-> v, saldo |-> v, reservado |-> 0]

\* a root with one active leaf, and pending despesas on the leaf
Init ==
  /\ rubricas = <<RubricaRow(NoParent, 1, 0, MaxDotacao, "ativa"),
                  RubricaRow(1, 2, MaxDotacao, MaxDotacao, "ativa")>>
  /\ despesas \in [1..MaxDespesas -> {PendingDespesa(2, v) : v \in 1..MaxValor}]
  /\ \/ dotacao = NoDotacao /\ ledger = <<>> /\ hist = HistInit(MaxDespesas)
     \/ \E v \in AnualValores :
          /\ dotacao = InitDotacao(v)
          /\ ledger = <<Mov("ajuste", 0, v)>>
          /\ hist = [HistInit(MaxDespesas) EXCEPT !.ser.saldo = v, !.ser.ledger = ledger]
  /\ execucao = <<>>
  /\ lock = NoLock
  /\ req = [r \in Reqs |-> IdleReq]
  /\ InitSse
  /\ InitOutras

\* concurrent requests on the confirmation routes and the reservations
Next ==
  \/ \E r \in Reqs, d \in 1..MaxDespesas, c \in Callers :
       ConfirmStart(r, d, c.override, c.admin) /\ UNCHANGED resto
  \/ \E r \in Reqs : ConfirmLock(r) /\ UNCHANGED resto
  \/ \E r \in Reqs : ConfirmCommit(r) /\ UNCHANGED resto
  \/ \E r \in Reqs : ConfirmExecucao(r) /\ UNCHANGED resto
  \/ \E r \in Reqs : Abort(r) /\ UNCHANGED resto
  \/ \E r \in Reqs, d \in 1..MaxDespesas : SimpleStart(r, d) /\ UNCHANGED resto
  \/ \E r \in Reqs, o \in Orders({1, 2}) : SimpleCommit(r, o) /\ UNCHANGED resto
  \/ \E v \in ReservaValores : CriarReserva(v) /\ UNCHANGED resto
  \/ \E v \in ReservaValores : CancelarReserva(v) /\ UNCHANGED resto

Spec == Init /\ [][Next]_vars

\* requests served one after the other: a request starts when no other is
\* running, and runs to its answer
NoneInFlight == \A r \in Reqs : req[r].pc \notin InFlight

NextSeq ==
  \/ \E d \in 1..MaxDespesas, c \in Callers :
       NoneInFlight /\ ConfirmStart(1, d, c.override, c.admin)
       /\ UNCHANGED resto
  \/ ConfirmLock(1) /\ UNCHANGED resto
  \/ ConfirmCommit(1) /\ UNCHANGED resto
  \/ ConfirmExecucao(1) /\ UNCHANGED resto
  \/ \E d \in 1..MaxDespesas : NoneInFlight /\ SimpleStart(1, d)
       /\ UNCHANGED resto
  \/ \E o \in Orders({1, 2}) : SimpleCommit(1, o) /\ UNCHANGED resto
  \/ \E v \in ReservaValores : NoneInFlight /\ CriarReserva(v)
       /\ UNCHANGED resto
  \/ \E v \in ReservaValores : NoneInFlight /\ CancelarReserva(v)
       /\ UNCHANGED resto
  \/ \E v \in AnualValores : NoneInFlight /\ AjusteStart(1, v)
       /\ UNCHANGED resto
  \/ AjusteCommit(1) /\ UNCHANGED resto

SpecSeq == Init /\ [][NextSeq]_vars

\* a confirmation by the allocation-aware route in one session and an update
\* of the annual value in another, each statement of one free to run
\* between two statements of the other
NextAjuste ==
  \/ \E d \in 1..MaxDespesas : ConfirmStart(1, d, FALSE, FALSE) /\ UNCHANGED resto
  \/ ConfirmLock(1) /\ UNCHANGED resto
  \/ ConfirmCommit(1) /\ UNCHANGED resto
  \/ ConfirmExecucao(1) /\ UNCHANGED resto
  \/ \E v \in AnualValores : AjusteStart(2, v) /\ UNCHANGED resto
  \/ AjusteCommit(2) /\ UNCHANGED resto

SpecAjuste == Init /\ [][NextAjuste]_vars

\* requests on the confirmation routes and the reservations served one after
\* the other, the annual value left as created
NextConfirm ==
  \/ \E d \in 1..MaxDespesas, c \in Callers :
       NoneInFlight /\ ConfirmStart(1, d, c.override, c.admin)
       /\ UNCHANGED resto
  \/ ConfirmLock(1) /\ UNCHANGED resto
  \/ ConfirmCommit(1) /\ UNCHANGED resto
  \/ ConfirmExecucao(1) /\ UNCHANGED resto
  \/ \E d \in 1..MaxDespesas : NoneInFlight /\ SimpleStart(1, d)
       /\ UNCHANGED resto
  \/ \E o \in Orders({1, 2}) : SimpleCommit(1, o) /\ UNCHANGED resto
  \/ \E v \in ReservaValores : NoneInFlight /\ CriarReserva(v)
       /\ UNCHANGED resto
  \/ \E v \in ReservaValores : NoneInFlight /\ CancelarReserva(v)
       /\ UNCHANGED resto

SpecConfirm == Init /\ [][NextConfirm]_vars

\* the payloads of PUT /despesas/{id} that set the date, the fiscal year or
\* the amount
DatasUpdates ==
  {u \in [set_rubrica : {FALSE}, rubrica_id : {1},
          set_valor : BOOLEAN, valor : {0, MaxValor},
          set_data : BOOLEAN, data_emissao : DataValores,
          set_exercicio : BOOLEAN, exercicio : {NoExercicio} \cup Anos] :
     /\ u # NoUpdate
     /\ ~u.set_valor => u.valor = 0
     /\ ~u.set_data => u.data_emissao = NoDate
     /\ ~u.set_exercicio => u.exercicio = NoExercicio}

\* a root with one active leaf and no despesa
InitDatas ==
  /\ rubricas = <<RubricaRow(NoParent, 1, 0, MaxDotacao, "ativa"),
                  RubricaRow(1, 2, MaxDotacao, MaxDotacao, "ativa")>>
  /\ despesas = <<>>
  /\ dotacao = NoDotacao
  /\ ledger = <<>>
  /\ execucao = <<>>
  /\ lock = NoLock
  /\ req = [r \in Reqs |-> IdleReq]
  /\ hist = HistInit(MaxDespesas)
  /\ InitSse
  /\ InitOutras

\* despesas created, edited and removed with dates and fiscal years
NextDatas ==
  \/ \E v \in 0..MaxValor, dt \in DataValores, ex \in {NoExercicio} \cup Anos :
       CreateDespesa(2, v, dt, ex) /\ UNCHANGED resto
  \/ \E id \in DespesaIds, u \in DatasUpdates, a \in BOOLEAN :
       UpdateDespesa(id, u, a) /\ UNCHANGED resto
  \/ \E id \in DespesaIds : DeleteDespesa(id) /\ UNCHANGED resto

SpecDatas == InitDatas /\ [][NextDatas]_vars

\* the payloads of PUT /despesas/{id} that change the amount
ValorUpdates ==
  {[NoUpdate EXCEPT !.set_valor = TRUE, !.valor = v] : v \in 0..(MaxValor + 1)}

\* a root with one active leaf, and pending despesas on the leaf
InitDespesa ==
  /\ rubricas = <<RubricaRow(NoParent, 1, 0, MaxDotacao, "ativa"),
                  RubricaRow(1, 2, MaxDotacao, MaxDotacao, "ativa")>>
  /\ despesas \in [1..MaxDespesas -> {PendingDespesa(2, v) : v \in 1..MaxValor}]
  /\ dotacao = NoDotacao
  /\ ledger = <<>>
  /\ execucao = <<>>
  /\ lock = NoLock
  /\ req = [r \in Reqs |-> IdleReq]
  /\ hist = HistInit(MaxDespesas)
  /\ InitSse
  /\ InitOutras

\* despesas confirmed, edited and removed, by administrators and by others,
\* one request after the other
NextDespesa ==
  \/ \E d \in 1..MaxDespesas : NoneInFlight /\ SimpleStart(1, d)
       /\ UNCHANGED resto
  \/ \E o \in Orders({1, 2}) : SimpleCommit(1, o) /\ UNCHANGED resto
  \/ \E id \in DespesaIds, u \in ValorUpdates, a \in BOOLEAN :
       NoneInFlight /\ PutDespesa(id, u, a) /\ UNCHANGED resto
  \/ \E id \in DespesaIds, a \in BOOLEAN : NoneInFlight /\ DelDespesa(id, a)
       /\ UNCHANGED resto

SpecDespesa == InitDespesa /\ [][NextDespesa]_vars

\* a root, a group under it and an active leaf under the group; pending
\* despesas on the leaf; the dotacao global of the year created
InitArvore ==
  /\ rubricas = <<RubricaRow(NoParent, 1, 0, MaxDotacao, "ativa"),
                  RubricaRow(1, 2, 0, MaxDotacao, "ativa"),
                  RubricaRow(2, 3, MaxDotacao, MaxDotacao, "ativa")>>
  /\ despesas \in [1..MaxDespesas -> {PendingDespesa(3, v) : v \in 1..MaxValor}]
  /\ \E v \in AnualValores :
       /\ dotacao = InitDotacao(v)
       /\ ledger = <<Mov("ajuste", 0, v)>>
       /\ hist = [HistInit(MaxDespesas) EXCEPT !.ser.saldo = v, !.ser.ledger = ledger]
  /\ execucao = <<>>
  /\ lock = NoLock
  /\ req = [r \in Reqs |-> IdleReq]
  /\ InitSse
  /\ InitOutras

\* the two confirmation routes on the three-level tree, one request after
\* the other
NextArvore ==
  \/ \E d \in 1..MaxDespesas, c \in Callers :
       NoneInFlight /\ ConfirmStart(1, d, c.override, c.admin)
       /\ UNCHANGED resto
  \/ ConfirmLock(1) /\ UNCHANGED resto
  \/ ConfirmCommit(1) /\ UNCHANGED resto
  \/ ConfirmExecucao(1) /\ UNCHANGED resto
  \/ \E d \in 1..MaxDespesas : NoneInFlight /\ SimpleStart(1, d)
       /\ UNCHANGED resto
  \/ \E o \in Orders({1, 2, 3}) : SimpleCommit(1, o) /\ UNCHANGED resto

SpecArvore == InitArvore /\ [][NextArvore]_vars

\* ------------------------------------- the handlers with their event
\* api/despesas.py:210-247
create_despesa_endpoint(rubrica_id, valor, data_emissao, exercicio) ==
  /\ CreateDespesa(rubrica_id, valor, data_emissao, exercicio)
  /\ Notify(despesas'[Len(despesas')].exercicio, "despesa_criada")
  /\ UNCHANGED outras

\* api/despesas.py:251-281: the event follows an accepted update only
update_despesa_endpoint(id, u, is_admin) ==
  /\ PutDespesa(id, u, is_admin)
  /\ IF req'[1].pc = "ok"
     THEN Notify(despesas'[id].exercicio, "despesa_atualizada")
     ELSE UNCHANGED sse
  /\ UNCHANGED outras

\* api/despesas.py:284-317
delete_despesa_endpoint(id, is_admin) ==
  /\ DelDespesa(id, is_admin)
  /\ IF req'[1].pc = "ok"
     THEN Notify(despesas[id].exercicio, "despesa_removida")
     ELSE UNCHANGED sse
  /\ UNCHANGED outras

\* api/despesas.py:320-352, the load: a despesa already confirmed is
\* returned as it is, and the event is published for it once more
confirm_despesa_endpoint_start(d) ==
  /\ SimpleStart(1, d)
  /\ IF req'[1].pc = "already"
     THEN Notify(despesas[d].exercicio, "despesa_confirmada")
     ELSE UNCHANGED sse
  /\ UNCHANGED outras

\* api/despesas.py:320-352, the confirmation committed and the event
confirm_despesa_endpoint(ordem) ==
  /\ SimpleCommit(1, ordem)
  /\ Notify(despesas[req[1].despesa].exercicio, "despesa_confirmada")
  /\ UNCHANGED outras

\* api/dotacao_global.py:139-213: the event follows the commit
create_or_update_dotacao_global ==
  /\ AjusteCommit(1)
  /\ IF req'[1].pc = "ok"
     THEN Notify(Exercicio, "dotacao_atualizada")
     ELSE UNCHANGED sse
  /\ UNCHANGED outras

\* api/rubricas.py:754-795
update_rubrica_endpoint(id, u) ==
  /\ UpdateRubrica(id, u.set_inicial, u.inicial, u.set_status, u.status)
  /\ Notify(Exercicio, "rubrica_atualizada")
  /\ UNCHANGED outras

\* a root with one active leaf and one pending despesa on the leaf; the
\* dotacao global of the year created
InitEvents ==
  /\ rubricas = <<RubricaRow(NoParent, 1, 0, MaxDotacao, "ativa"),
                  RubricaRow(1, 2, MaxDotacao, MaxDotacao, "ativa")>>
  /\ despesas = <<PendingDespesa(2, MaxValor)>>
  /\ dotacao = InitDotacao(MaxAnual)
  /\ ledger = <<Mov("ajuste", 0, MaxAnual)>>
  /\ hist = [HistInit(MaxDespesas) EXCEPT !.ser.saldo = MaxAnual,
                                          !.ser.ledger = ledger]
  /\ execucao = <<>>
  /\ lock = NoLock
  /\ req = [r \in Reqs |-> IdleReq]
  /\ InitSse
  /\ InitOutras

\* the handlers that change a table, each with the event it publishes or
\* without any, one request after the other, every caller an ordinary
\* user; no stream is open
NextEvents ==
  \/ \E v \in 1..MaxValor :
       NoneInFlight /\ create_despesa_endpoint(2, v, NoDate, Exercicio)
  \/ \E id \in DespesaIds, u \in ValorUpdates :
       NoneInFlight /\ update_despesa_endpoint(id, u, FALSE)
  \/ \E id \in DespesaIds :
       NoneInFlight /\ delete_despesa_endpoint(id, FALSE)
  \/ \E d \in 1..MaxDespesas : NoneInFlight /\ confirm_despesa_endpoint_start(d)
  \/ \E o \in Orders({1, 2}) : confirm_despesa_endpoint(o)
  \/ \E d \in 1..MaxDespesas :
       NoneInFlight /\ ConfirmStart(1, d, FALSE, FALSE) /\ UNCHANGED resto
  \/ ConfirmLock(1) /\ UNCHANGED resto
  \/ ConfirmCommit(1) /\ UNCHANGED resto
  \/ ConfirmExecucao(1) /\ UNCHANGED resto
  \/ \E v \in 1..MaxValor : NoneInFlight /\ CriarReserva(v) /\ UNCHANGED resto
  \/ \E v \in 1..MaxValor : NoneInFlight /\ CancelarReserva(v)
       /\ UNCHANGED resto
  \/ \E v \in AnualValores : NoneInFlight /\ AjusteStart(1, v)
       /\ UNCHANGED resto
  \/ create_or_update_dotacao_global
  \/ \E s \in StatusRubrica :
       NoneInFlight /\ CreateRubrica(1, 0, s) /\ UNCHANGED resto
  \/ \E id \in RubricaIds, u \in RubricaUpdates :
       NoneInFlight /\ update_rubrica_endpoint(id, u)
  \/ \E id \in RubricaIds : NoneInFlight /\ DeleteRubrica(id) /\ UNCHANGED resto

SpecEvents == InitEvents /\ [][NextEvents]_vars

\* the dashboard: streams opened and closed, events published by the
\* handlers (the tables left as they are), and the shutdown of the process
InitStreams == InitDatas

NextStreams ==
  \/ \E c \in 1..MaxStreams, ex \in Anos, p \in BOOLEAN : Connect(c, ex, p)
  \/ \E c \in 1..MaxStreams : StreamData(c)
  \/ \E c \in 1..MaxStreams : StreamTimeout(c)
  \/ \E c \in 1..MaxStreams : Disconnect(c)
  \/ \E ex \in Anos : Publish(ex, "despesa_confirmada")
  \/ shutdown_event

SpecStreams == InitStreams /\ [][NextStreams]_vars

\* no row in any table
InitVazio ==
  /\ rubricas = <<>>
  /\ despesas = <<>>
  /\ dotacao = NoDotacao
  /\ ledger = <<>>
  /\ hist = HistInit(MaxDespesas)
  /\ execucao = <<>>
  /\ lock = NoLock
  /\ req = [r \in Reqs |-> IdleReq]
  /\ InitSse
  /\ usuarios = <<>>
  /\ fornecedores = <<>>
  /\ funcionarios = <<>>
  /\ user_creation_log = {}
  /\ info = NoInfo
  /\ import_batch = <<>>
  /\ colunas = NoColunas

\* a database that compares text with or without regard to case
InitContas == InitVazio /\ motor \in [ci : BOOLEAN, fk : {TRUE}]

\* accounts made by the administrator and by the creation of suppliers
NextContas ==
  \/ \E e \in EmailValores, n \in Nuits, c \in Contactos :
       create_usuario(e, n, c, TRUE)
  \/ \E data \in ContaDatas : create_fornecedor(data)

SpecContas == InitContas /\ [][NextContas]_vars

\* requests that carry a name and an email only
ContaDatasEmail == {data \in ContaDatas : data.nif = 0 /\ data.contacto = 0}

\* one active rubrica of the fiscal year, a root without children, with its
\* code in capitals, and no despesa and no batch yet
InitImport ==
  /\ rubricas = create_rubrica(<<>>, NoParent, 0, "ativa")
  /\ despesas = <<>>
  /\ dotacao = NoDotacao
  /\ ledger = <<>>
  /\ hist = HistInit(MaxDespesas)
  /\ execucao = <<>>
  /\ lock = NoLock
  /\ req = [r \in Reqs |-> IdleReq]
  /\ InitSse
  /\ usuarios = <<>>
  /\ fornecedores = <<>>
  /\ funcionarios = <<>>
  /\ user_creation_log = {}
  /\ motor = [ci |-> TRUE, fk |-> TRUE]
  /\ info = NoInfo
  /\ import_batch = <<>>
  /\ colunas = [rubrica |-> <<[codigo |-> 2, exercicio |-> Exercicio]>>,
                batch_id |-> <<>>]

\* files uploaded and imported, for a trial or for good
NextImport ==
  \/ upload_file
  \/ \E ficheiro \in Ficheiros, b \in BatchIds, ex \in Anos, dry \in BOOLEAN :
       execute_import(ficheiro, b, ex, dry)

SpecImport == InitImport /\ [][NextImport]_vars

\* any database
InitApagar == InitVazio /\ motor \in [ci : BOOLEAN, fk : BOOLEAN]

\* accounts made, switched off and on, and the records they back deleted
NextApagar ==
  \/ \E e \in EmailValores, a \in BOOLEAN : create_usuario(e, 0, 0, a)
  \/ \E u \in UsuarioIds, a \in BOOLEAN : update_usuario(u, a)
  \/ \E u \in UsuarioIds : delete_usuario_endpoint(u)
  \/ \E data \in ContaDatasEmail : create_fornecedor(data)
  \/ \E f \in FornecedorIds : delete_fornecedor(f)
  \/ \E data \in ContaDatasEmail : create_funcionario(data)
  \/ \E f \in FuncionarioIds : delete_funcionario(f)

SpecApagar == InitApagar /\ [][NextApagar]_vars

\* ================================================================ claims
DbVars == <<rubricas, despesas, dotacao, ledger, execucao>>

SumCalc(rs, S) == SumOver(S, [c \in 1..Len(rs) |-> rs[c].dotacao_calculada])

\* the despesa_confirmada movements that reference despesa d
MovsDe(d) ==
  {i \in 1..Len(ledger) : /\ ledger[i].tipo = "despesa_confirmada"
                          /\ ledger[i].referencia = d}

Confirmadas ==
  {d \in DespesaIds : despesas[d].present /\ despesas[d].status = "confirmada"}

TotalConfirmado == SumOver(Confirmadas, [d \in DespesaIds |-> despesas[d].valor])

\* the despesas confirmed by POST /despesas/{id}/confirm
ViaAware == {d \in DespesaIds : hist.via[d] = "aware"}

EmCurso(d) == \E r \in Reqs : req[r].pc \in InFlight /\ req[r].despesa = d

\* ------------------------------------------------------------------- C1
\* C1: after any sequence of rubrica create, update, batch create and
\* soft-delete, every rubrica that has a child has a computed allocation
\* equal to the sum of its active children's computed allocations, and every
\* rubrica without children has a computed allocation equal to its initial
\* allocation.
C1_AllocationInvariant ==
  \A id \in RubricaIds :
    IF has_children(rubricas, id)
    THEN rubricas[id].dotacao_calculada = SumCalc(rubricas, ActiveChildren(rubricas, id))
    ELSE rubricas[id].dotacao_calculada = rubricas[id].dotacao_inicial

\* the same, in the states where no rubrica with a child keeps an initial
\* allocation
NonLeafInicialZero ==
  \A id \in RubricaIds : has_children(rubricas, id) => rubricas[id].dotacao_inicial = 0

C1_WhenNonLeafInicialZero == NonLeafInicialZero => C1_AllocationInvariant

\* ------------------------------------------------------------------- C2
\* C2: when no administrator override was used and the annual value was
\* never lowered, the confirmed despesas of the year sum to no more than the
\* year's annual value, whichever confirmation route was used.
C2_GlobalCap ==
  (dotacao.exists /\ ~hist.override_used /\ ~hist.lowered)
    => TotalConfirmado <= dotacao.valor_anual

\* ------------------------------------------------------------------- C3
\* C3: a confirmation request (either route) for a despesa that is already
\* confirmada answers at once and changes neither the saldo, the ledger nor
\* any other table: confirming twice in sequence leaves the state of
\* confirming once.
C3_ConfirmIdempotent ==
  [][(req[1].pc \notin InFlight /\ req'[1] # req[1]) =>
       \A d \in Confirmadas :
         (\/ \E c \in Callers : ConfirmStart(1, d, c.override, c.admin)
          \/ SimpleStart(1, d))
         => (req'[1].pc = "already" /\ UNCHANGED DbVars)]_vars

C3_SecondCallAnswered ==
  /\ req[1].pc = "already"
  /\ \E d \in DespesaIds : Cardinality(MovsDe(d)) = 1

\* ------------------------------------------------------------------- C4
\* C4: under any interleaving of concurrent confirmation requests for the
\* same pending despesa, at most one despesa_confirmada movement references
\* it and its amount is deducted from saldo at most once.
C4_ConfirmedOnce ==
  /\ \A d \in DespesaIds : Cardinality(MovsDe(d)) <= 1
  /\ dotacao.exists =>
       dotacao.saldo >= dotacao.valor_anual
                          - SumOver({d \in DespesaIds : MovsDe(d) # {}},
                                    [d \in DespesaIds |-> despesas[d].valor])

\* ------------------------------------------------------------------- C5
\* C5: whatever the interleaving of concurrent allocation-aware
\* confirmations, reservations and cancellations, saldo, reservado and the
\* ledger are those of running the requests one after the other in commit
\* order.
SerialOutcome ==
  /\ dotacao.saldo = hist.ser.saldo
  /\ dotacao.reservado = hist.ser.reservado
  /\ ledger = hist.ser.ledger

OnlyAwareRoute == \A d \in DespesaIds : hist.via[d] # "simple"

C5_SerializedByLock == (NoneInFlight /\ OnlyAwareRoute) => SerialOutcome

\* the same, in the states where no despesa was confirmed twice
C5_WhenConfirmedOnce ==
  (OnlyAwareRoute /\ \A d \in DespesaIds : Cardinality(MovsDe(d)) <= 1)
    => SerialOutcome

\* ------------------------------------------------------------------- C6
\* C6: the allocation-aware confirmation is all or nothing: once no request
\* is working on a despesa, a despesa_confirmada movement for it is persisted
\* only together with the status confirmada and the monthly execution row
\* that counts its amount.
C6_AllOrNothing ==
  \A d \in DespesaIds :
    (MovsDe(d) # {} /\ ~EmCurso(d))
      => /\ despesas[d].status = "confirmada"
         /\ despesas[d].rubrica_id \in DOMAIN execucao
         /\ execucao[despesas[d].rubrica_id].gasto >= despesas[d].valor

\* ------------------------------------------------------------------- C7
\* C7: a confirmation without override of a despesa whose amount exceeds
\* saldo - reservado is answered 400 and leaves saldo, reservado, the ledger
\* and the despesa's status unchanged.
C7_InsufficientBalanceRejected ==
  [][\A r \in Reqs :
       (/\ req[r].pc = "loaded"
        /\ req'[r].pc \notin {"loaded", "aborted"}
        /\ dotacao.exists
        /\ ~req[r].override
        /\ despesas[req[r].despesa].valor > dotacao.saldo - dotacao.reservado)
       => (req'[r].pc = "e400_saldo" /\ UNCHANGED <<dotacao, ledger, despesas>>)]_vars

C7_RejectedWithReserva ==
  \E r \in Reqs : /\ req[r].pc = "e400_saldo"
                  /\ dotacao.reservado > 0
                  /\ \E d \in DespesaIds : /\ despesas[d].status = "pendente"
                                           /\ despesas[d].valor <= dotacao.saldo
                                           /\ despesas[d].valor > dotacao.saldo - dotacao.reservado

\* ------------------------------------------------------------------- C8
\* C8: with requests served one after the other, the stored saldo is the
\* annual value less the amounts of the despesas confirmed by the
\* allocation-aware route, and exactly one despesa_confirmada movement
\* references each of them (none references any other despesa).
C8_SequentialConfirmations ==
  dotacao.exists =>
    /\ dotacao.saldo = dotacao.valor_anual
                         - SumOver(ViaAware, [d \in DespesaIds |-> despesas[d].valor])
    /\ \A d \in DespesaIds :
         Cardinality(MovsDe(d)) = IF d \in ViaAware THEN 1 ELSE 0
    /\ \A d \in ViaAware : \A i \in MovsDe(d) : ledger[i].valor = -despesas[d].valor

C8_TwoConfirmed ==
  /\ ViaAware = {1, 2}
  /\ NoneInFlight
  /\ ~hist.override_used
  /\ dotacao.saldo = dotacao.valor_anual - despesas[1].valor - despesas[2].valor

C10_DespesaOnActiveLeaf ==
  \A d \in DespesaIds :
    despesas[d].present =>
      /\ rubricas[despesas[d].rubrica_id].status = "ativa"
      /\ ~has_children(rubricas, despesas[d].rubrica_id)

\* ------------------------------------------------------------------ C11
\* C11: after any sequence of accepted despesa creates and updates, every
\* despesa that has an issue date has a fiscal year equal to the year of that
\* date (a request that would make them differ is refused).
C11_DataNoExercicio ==
  \A d \in DespesaIds :
    (despesas[d].present /\ despesas[d].data_emissao # NoDate)
      => despesas[d].exercicio = despesas[d].data_emissao

\* the same for the despesas as POST /despesas leaves them
C11_CreateKeepsYear ==
  [][\A v \in 0..MaxValor, dt \in DataValores, ex \in {NoExercicio} \cup Anos :
       CreateDespesa(2, v, dt, ex) =>
         LET row == despesas'[Len(despesas')]
         IN  row.data_emissao # NoDate => row.exercicio = row.data_emissao]_vars

\* ------------------------------------------------------------------ C12
\* C12: once a despesa is confirmada, every update request by a caller
\* without the admin role is refused and every delete request by any caller
\* is refused; the requests leave the despesa's fields as they were and the
\* row in place.
C12_ConfirmadaLocked ==
  [][\A d \in Confirmadas :
       /\ (\E u \in ValorUpdates : PutDespesa(d, u, FALSE))
            => (req'[1].pc = "e400" /\ despesas' = despesas)
       /\ (\E a \in BOOLEAN : DelDespesa(d, a))
            => (req'[1].pc = "e400" /\ despesas' = despesas)]_vars

\* a confirmed despesa whose removal an administrator asked for and was
\* refused, after a pending despesa was edited and removed
C12_DeleteRefused ==
  /\ req[1] = Answered("e400", "delete_despesa", 1, TRUE)
  /\ despesas[1].status = "confirmada" /\ despesas[1].present
  /\ \E d \in DespesaIds : ~despesas[d].present

\* ------------------------------------------------------------------ C13
\* C13: the edit of a confirmed despesa is refused only to callers without
\* the admin role: a PUT /despesas/{id} with a valid amount on a confirmed
\* despesa is applied when the caller is an administrator and refused when
\* the caller is not.
C13_AdminEditsConfirmada ==
  [][\A d \in Confirmadas : \A u \in ValorUpdates :
       u.valor > 0 =>
         /\ PutDespesa(d, u, TRUE)
              => (req'[1].pc = "ok" /\ despesas'[d].valor = u.valor)
         /\ PutDespesa(d, u, FALSE)
              => (req'[1].pc = "e400" /\ despesas' = despesas)]_vars

C15_NoZeroGastoRow ==
  [][\A rid \in RubricaIds :
       (rid \notin DOMAIN execucao /\ rid \in DOMAIN execucao')
         => execucao'[rid].gasto > 0]_vars

\* the same for the allocation-aware route alone
C15_AwareNoZeroGastoRow ==
  [][(\E r \in Reqs : ConfirmExecucao(r)) =>
       \A rid \in RubricaIds :
         (rid \notin DOMAIN execucao /\ rid \in DOMAIN execucao')
           => execucao'[rid].gasto > 0]_vars

\* ------------------------------------------------------------------ C16
\* C16: in every reachable state a rubrica that has a child has an initial
\* allocation of 0, also when it held a positive initial allocation as a
\* leaf before the child was created under it.
C16_ParentInicialZero ==
  \A id \in RubricaIds :
    get_children(rubricas, id) # {} => rubricas[id].dotacao_inicial = 0


\* -------------------------------------------------- dashboard claims
\* C17: every client whose stream for the year is open when an event is
\* published, and stays open with no shutdown, eventually receives the
\* event.  An event leaves the queue for good when a stream takes it, so a
\* client receives it only if no other client did: no open stream has had
\* an event, published since it connected, delivered to another client.
C17_EveryOpenStreamReceives ==
  ~shutting_down =>
    \A c \in 1..MaxStreams : streams[c].pc = "open" => ~streams[c].faltam

\* the streams still open
OpenStreams == {c \in 1..MaxStreams : streams[c].pc = "open"}

\* C18: once the shutdown flag is set, every open stream ends at the next
\* event or timeout it wakes up on, and from then on no stream sends a data
\* frame or a heartbeat.
C18_StreamsStopOnShutdown ==
  [][shutting_down =>
       /\ frame' = NoFrame
       /\ OpenStreams' \subseteq OpenStreams
       /\ \A c \in 1..MaxStreams :
            (StreamData(c) \/ StreamTimeout(c)) => streams'[c] = ClosedStream]_vars

\* the streams open when the flag was set have all ended, each on one
\* shutdown event
C18_AllStoppedAfterShutdown ==
  /\ shutting_down
  /\ OpenStreams = {}
  /\ \E ex \in DOMAIN orphans :
       /\ Len(orphans[ex]) = ShutdownPuts - MaxStreams
       /\ \A i \in 1..Len(orphans[ex]) : orphans[ex][i].type = "shutdown"

\* with the generators scheduled, the streams open at shutdown all end
SpecStreamsFair ==
  SpecStreams /\ \A c \in 1..MaxStreams :
                   WF_vars(StreamData(c) \/ StreamTimeout(c))

C18_EventuallyStopped == shutting_down ~> (OpenStreams = {})

\* the queue of a year, empty if the year has none yet
QueueOf(qs, exercicio) ==
  IF exercicio \in DOMAIN qs THEN qs[exercicio] ELSE <<>>

C19_EveryMutationPublishesOnce ==
  [][(tables' # tables /\ DbVars' # DbVars /\ req'[1].pc \notin InFlight) =>
       /\ relogio' = relogio + 1
       /\ Len(QueueOf(event_queues', Exercicio))
            = Len(QueueOf(event_queues, Exercicio)) + 1]_vars

\* ------------------------------------------------------ later claims
\* C21: DELETE /despesas/{id} on a pending despesa succeeds and is a soft
\* cancel: afterwards the despesa is still there, with status cancelada.
C21_DeleteIsSoftCancel ==
  [][\A d \in DespesaIds :
       (/\ despesas[d].present
        /\ despesas[d].status = "pendente"
        /\ \E a \in BOOLEAN : DelDespesa(d, a)) =>
         /\ req'[1].pc = "ok"
         /\ despesas'[d].present
         /\ despesas'[d].status = "cancelada"]_vars

\* C22: a Usuario is soft-deleted only: no operation, the deletion of the
\* supplier or employee it backs included, ever removes a Usuario record.
C22_UsuarioNeverRemoved ==
  [][\A u \in UsuarioIds : usuarios[u].present => usuarios'[u].present]_vars

\* the step deletes a supplier or an employee backed by account u while no
\* record of the other kind is linked to u
RemovedWithRecord(u) ==
  \/ /\ ~funcionario_existente(u)
     /\ \E f \in FornecedorIds : /\ fornecedores[f].present
                                 /\ fornecedores[f].usuario_id = u
                                 /\ ~fornecedores'[f].present
  \/ /\ ~fornecedor_existente(u)
     /\ \E f \in FuncionarioIds : /\ funcionarios[f].present
                                  /\ funcionarios[f].usuario_id = u
                                  /\ ~funcionarios'[f].present

\* C22 as the code has it: DELETE /usuarios/{id} keeps the record and only
\* makes the account inactive; a Usuario record is removed only together
\* with the supplier or the employee it backs, and only if no record of the
\* other kind is linked to it.
C22_RemovedOnlyWithRecord ==
  [][\A u \in UsuarioIds :
       /\ (usuarios[u].present /\ ~usuarios'[u].present) => RemovedWithRecord(u)
       /\ delete_usuario_endpoint(u) =>
            usuarios' = [usuarios EXCEPT ![u].activo = FALSE]]_vars

\* one account gone with the record it backed, another switched off
C22_RemovedAndInactive ==
  \E u, v \in UsuarioIds :
    /\ ~usuarios[u].present
    /\ usuarios[v].present /\ ~usuarios[v].activo

\* the supplier the step adds, linked to account u that existed before
LinkedTo(u, data) ==
  LET r == info'
  IN  /\ r.ok /\ r.vinculado
      /\ ~r.usuario_criado /\ ~r.senha_temporaria
      /\ usuarios' = usuarios
      /\ fornecedores' = Append(fornecedores,
                                [present |-> TRUE, usuario_id |-> u])

EmailFound(email) == email = normalize_email(email) \/ motor.ci

C24_AcceptedRowsPersisted ==
  [][\A ficheiro \in Ficheiros, b \in BatchIds, ex \in Anos :
       execute_import(ficheiro, b, ex, FALSE) =>
         LET aceites == {i \in 1..Len(ficheiro) : ~row_erros(ficheiro[i])}
             novas   == (Len(despesas) + 1)..Len(despesas')
         IN  /\ Cardinality(novas) = Cardinality(aceites)
             /\ \A d \in novas : /\ despesas'[d].status = "pendente"
                                 /\ colunas'.batch_id[d] = b]_vars

\* C25: a dry run of an import leaves the tables despesa, rubrica and
\* import_batch as they were, whatever the file.
C25_DryRunPersistsNothing ==
  [][\A ficheiro \in Ficheiros, b \in BatchIds, ex \in Anos :
       execute_import(ficheiro, b, ex, TRUE) =>
         UNCHANGED <<rubricas, despesas, import_batch, colunas>>]_vars

\* C26: when a confirmation by the simple route completes, every inclusive
\* ancestor of the rubrica of the despesa has a monthly execution row whose
\* gasto is the sum of the gasto of the rows of its direct children, as they
\* stand then, plus the confirmed despesas charged to the ancestor itself.
C26_AncestorsSumChildren ==
  [][(req[1].pc = "s_loaded" /\ req'[1].pc = "ok") =>
       \A a \in get_ancestors(rubricas, despesas[req[1].despesa].rubrica_id) :
         LET children == get_children(rubricas, a) \cap DOMAIN execucao'
         IN  /\ a \in DOMAIN execucao'
             /\ execucao'[a].gasto =
                  SumOver(children, [c \in children |-> execucao'[c].gasto])
                  + gasto_confirmado(despesas', a)]_vars

\* the sum of the signed values of the movements of the row
LedgerSum == SumOver(1..Len(ledger), [i \in 1..Len(ledger) |-> ledger[i].valor])

\* C27: in every reachable state saldo - reservado of the dotacao global row
\* equals the sum of the signed values of all its ledger movements.
C27_LedgerAccountsForBalance ==
  dotacao.exists => dotacao.saldo - dotacao.reservado = LedgerSum

\* C28: as long as no confirmation used the administrator's override,
\* 0 <= reservado <= saldo after any sequence of reservations, cancellations,
\* updates of the annual value and confirmations.
C28_ReservadoWithinSaldo ==
  (dotacao.exists /\ ~hist.override_used) =>
    (0 <= dotacao.reservado /\ dotacao.reservado <= dotacao.saldo)

\* C29: an update of the annual value that runs while a confirmation by the
\* allocation-aware route commits loses neither effect: when the update
\* commits, saldo is the saldo committed so far plus the delta of the update.
C29_AjusteKeepsConfirmation ==
  [][(req[2].pc = "a_read" /\ req'[2].pc = "ok" /\ req[2].visto.exists) =>
       dotacao'.saldo =
         dotacao.saldo + (req[2].novo - req[2].visto.valor_anual)]_vars

\* C30: every child POST /rubricas/batch creates has the initial allocation
\* its item supplied (0.00 when the item has none), and after the batch the
\* computed allocation of the parent is the sum over its active children.
C30_BatchKeepsItemDotacao ==
  [][\A p \in RubricaIds, items \in BatchItems :
       CreateRubricasBatch(p, items) =>
         /\ \A i \in 1..Len(items) :
              rubricas'[Len(rubricas) + i].dotacao_inicial = items[i]
         /\ rubricas'[p].dotacao_calculada =
              SumCalc(rubricas', ActiveChildren(rubricas', p))]_vars

====
